---- MODULE Spec2Model ----
(***************************************************************************)
(* Peer authorization core of the VPN backend (internal/services/          *)
(* wireguard.go): WireguardService.AddUserKey ("Authorize") and            *)
(* WireguardService.RemoveUserKey ("Deauthorize") against the user_keys    *)
(* table (the Peer Registry) and the wg0 device (the live device).         *)
(*                                                                         *)
(* Every request runs on its own worker (fasthttp serves requests          *)
(* concurrently), so each database statement and each device call is one   *)
(* atomic step and the steps of different workers interleave freely.       *)
(* Every database statement and every ConfigureDevice call may fail.       *)
(***************************************************************************)
EXTENDS Integers, FiniteSets, Sequences, TLC

\* ---------------------------------------------------------------- bounds
NumUsers == 2       \* users that send requests
MaxCalls == 3       \* service calls started in one behaviour
MaxCount == 255     \* largest active-row count tried in SpecAlloc
MaxRestarts == 1    \* restarts of the process after its first start
MaxChars == 46      \* longest run of alphabet characters in a submitted key
MaxLetters == 6     \* longest run of lowercase letters in a submitted password

\* ------------------------------------------------------ program constants
KeyLen == 32        \* decoded length of a WireGuard key
MaxPeers == 253     \* pool ceiling of allocateUserIP
FirstHost == 2      \* host of the first allocation (.1 is the server)
PrefixBits == 32    \* "/32" of the allocated address
Keepalive == 25     \* PersistentKeepaliveInterval, seconds
MaxRetries == 10    \* maxRetries of synchronizeKeys
RetryWait == 5      \* seconds slept after a failed synchronization
DefaultPort == 51820 \* port of the default server row
MinPassword == 8    \* shortest password validateRegistration accepts
MinTLD == 2         \* shortest top-level domain isValidEmail accepts

Workers == {1, 2}           \* two requests may be in progress at once
Users == 1..NumUsers
KeyIds == {1, 2}            \* two distinct well-formed client public keys
Servers == {"s1"}

\* A submitted public key string, abstracted to what the code reads of it:
\* whether it is base64, the number of bytes it decodes to, and which key
\* it is (id 0: not a key).
GoodKeys == {[id |-> i, b64 |-> TRUE, len |-> KeyLen] : i \in KeyIds}
BadKeys ==
    { [id |-> 0, b64 |-> FALSE, len |-> 0],          \* not base64
      [id |-> 0, b64 |-> TRUE, len |-> KeyLen - 1] } \* a short key
KeyInputs == GoodKeys \cup BadKeys
NoKey == [id |-> 0, b64 |-> FALSE, len |-> 0]

NoIP == <<>>
OK == <<>>
NoResult == <<"none">>
NoPeer == [present |-> FALSE]
Nil == "nil"

\* --------------------------------------------------------- error results
ErrInvalidKey == "invalid public key"
ErrAllocate == "failed to allocate IP"
ErrAuthorize == "failed to authorize user in WireGuard"
ErrPersist == "failed to add user key"
ErrNotFound == "user key not found"
ErrDeactivate == "failed to deactivate user key"
ErrCount == "failed to count existing users"
ErrNoIP == "no available IP addresses"
ErrNoClient == "WireGuard client not available"
ErrConfigure == "failed to configure WireGuard device"
ErrRemove == "failed to remove peer from WireGuard device"
ErrParseKey == "failed to parse public key"
ErrParseCIDR == "failed to parse allowed IPs"

\* ------------------------------------------------------------ log lines
LogInvalidKey == "Invalid public key provided"
LogAuthorizeFailed == "Failed to authorize user in WireGuard engine"
LogPersistFailed == "Failed to add user key to database"
LogAuthorized == "User authorized in WireGuard and database"
LogNoClientAdd == "WireGuard client not available - skipping peer authorization"
LogNoClientRemove == "WireGuard client not available - skipping peer removal"
LogEngineAdded == "User authorized in WireGuard engine"
LogEngineRemoved == "User removed from WireGuard engine"
LogRemoveFailed == "Failed to remove user from WireGuard engine"
LogRemoved == "User key removed from WireGuard and database"

\* ------------------------------------------ startup: errors and log lines
ErrReadKeyFile == "could not read public key file"
ErrEmptyKeyFile == "public key file is empty"
ErrUpdateKey == "failed to update server public key"
ErrServerNotFound == "server not found"
LogSynced == "Successfully synchronized server public key with database"
LogUpToDate == "Server public key is already up-to-date in the database"
LogServerNotFound == "Server not found"
LogConfigGenerated == "WireGuard config generated"
LogShuttingDown == "Shutting down server..."
LogForced == "Server forced to shutdown"
LogExited == "Server exited"

\* The id of the server this instance manages (serverIDStr).
serverIDStr == "s1"
\* A servers row of another id, as uuid_generate_v4 gives it.
OtherServer == "s2"

\* File contents and stored keys are strings: sequences of characters.
NoFile == <<"ENOENT">>      \* the key file does not exist
NULL == <<"NULL">>          \* no public_key stored in the row
FileContents ==
    { <<>>, <<" ", "\n">>, <<"A", "\n">>, <<" ", "B">>, <<"B">> }
StoredKeys == { NULL, <<"A">>, <<"B">>, <<"O">> }

VARIABLES
    registry,   \* the user_keys table: a set of rows
    device,     \* the peers of wg0: key -> NoPeer or a peer entry
    wgClient,   \* WireguardService.wgClient is non-nil
    proc,       \* per worker: the call it runs, its locals and its position
    returned,   \* the call that returned to its caller last: its result,
                \* the lines it logged and the calls it made
    ncalls,     \* history: calls started so far
    boot,       \* the process's main goroutine: its position in startup
                \* and in shutdown, the loop counter of synchronizeKeys,
                \* and history
    keyFile,    \* the content of /etc/wireguard/publickey, or NoFile
    servers,    \* the servers table: a set of rows
    users       \* the users table: a set of rows

serviceVars == <<registry, device, wgClient, proc, returned, ncalls>>
startupVars == <<boot, keyFile, servers>>
vars == <<registry, device, wgClient, proc, returned, ncalls,
          boot, keyFile, servers, users>>

\* ------------------------------------------------------- pure functions

\* A key as it is submitted is a string, a sequence of characters, each
\* abstracted to what base64 decoding reads of it: "a" a character of the
\* standard alphabet, "=" the padding character, "\n" a line break, "!"
\* any other character.
Repeat(c, n) == [i \in 1..n |-> c]
NotLineBreak(c) == c # "\n"

\* base64.StdEncoding.DecodeString (padded, not strict): line breaks are
\* skipped; the characters are read in groups of four; padding may only
\* close the last group, as "xx==" (one byte) or "xxx=" (two bytes), and
\* nothing may follow it; a group may not end early; each full group
\* gives three bytes.  The result is the abstraction the service reads:
\* whether decoding succeeded and the number of bytes.
DecodeString(s) ==
    LET t == SelectSeq(s, NotLineBreak)
        n == Len(t)
        pads == {i \in 1..n : t[i] = "="}
        first == IF pads = {} THEN n + 1
                 ELSE CHOOSE i \in pads : \A j \in pads : i <= j
        groups == (first - 1) \div 4
        j == (first - 1) % 4
        alphabetOnly == \A i \in 1..(first - 1) : t[i] = "a"
        corrupt == [id |-> 0, b64 |-> FALSE, len |-> 0]
    IN  IF ~alphabetOnly THEN corrupt
        ELSE IF pads = {}
        THEN IF j = 0 THEN [id |-> 0, b64 |-> TRUE, len |-> 3 * groups]
             ELSE corrupt
        ELSE IF j = 2
        THEN IF n = first + 1 /\ t[n] = "="
             THEN [id |-> 0, b64 |-> TRUE, len |-> 3 * groups + 1]
             ELSE corrupt
        ELSE IF j = 3
        THEN IF n = first
             THEN [id |-> 0, b64 |-> TRUE, len |-> 3 * groups + 2]
             ELSE corrupt
        ELSE corrupt

\* Mutant of ValidatePublicKey: the length of the decoded key is not tested.
ValidatePublicKeyAnyLength(publicKey) ==
    IF ~publicKey.b64 THEN "invalid base64 encoding"
    ELSE Nil

\* base64.StdEncoding.DecodeString followed by the length test.
ValidatePublicKey(publicKey) ==
    IF ~publicKey.b64 THEN "invalid base64 encoding"
    ELSE IF publicKey.len # KeyLen THEN "invalid key length"
    ELSE Nil

\* wgtypes.ParseKey: base64-decodes and requires KeyLen bytes.
ParseKey(publicKey) ==
    IF publicKey.b64 /\ publicKey.len = KeyLen
    THEN [err |-> Nil, key |-> publicKey]
    ELSE [err |-> ErrParseKey, key |-> NoKey]

\* fmt.Sprintf("10.0.0.%d/32", host)
Sprintf(host) == <<10, 0, 0, host, PrefixBits>>

\* net.ParseCIDR: the network of the address (host bits beyond the prefix
\* cleared); an octet above 255 is a parse error.
ParseCIDR(cidr) ==
    IF cidr = NoIP \/ cidr[4] > 255 \/ cidr[5] > 32 \/ cidr[5] < 24
    THEN [err |-> ErrParseCIDR, net |-> NoIP]
    ELSE [err |-> Nil,
          net |-> <<cidr[1], cidr[2], cidr[3],
                    cidr[4] - (cidr[4] % (2 ^ (32 - cidr[5]))), cidr[5]>>]

\* SELECT COUNT(*) FROM user_keys WHERE server_id = $1 AND is_active = true
CountActive(reg, serverID) ==
    Cardinality({r \in reg : r.server_id = serverID /\ r.is_active})

\* Mutant of allocateUserIP: the ceiling test is off by one.
allocateUserIPOffByOne(count) ==
    IF count > MaxPeers
    THEN [err |-> ErrNoIP, ip |-> NoIP]
    ELSE [err |-> Nil, ip |-> Sprintf(count + FirstHost)]

\* Mutant of allocateUserIP: no ceiling, every count gets an address.
allocateUserIPNoCeiling(count) ==
    [err |-> Nil, ip |-> Sprintf(count + FirstHost)]

\* allocateUserIP after a successful count query.
allocateUserIP(count) ==
    IF count >= MaxPeers
    THEN [err |-> ErrNoIP, ip |-> NoIP]
    ELSE [err |-> Nil, ip |-> Sprintf(count + FirstHost)]

Row(userID, serverID, publicKey, allowedIPs, active) ==
    [user_id |-> userID, server_id |-> serverID, public_key |-> publicKey,
     allowed_ips |-> allowedIPs, is_active |-> active]

\* The rows the conflict target (user_id, server_id) of the upsert matches.
Conflicting(reg, userID, serverID) ==
    {r \in reg : r.user_id = userID /\ r.server_id = serverID}

\* Mutant of Upsert: the conflict target also names public_key, so a row
\* with another key is left in place.
UpsertConflictOnKey(reg, userID, serverID, publicKey, allowedIPs) ==
    (reg \ {r \in Conflicting(reg, userID, serverID) : r.public_key = publicKey})
        \cup {Row(userID, serverID, publicKey, allowedIPs, TRUE)}

\* Mutant of Upsert: a plain INSERT with no conflict clause and no
\* uniqueness constraint.
UpsertInsertOnly(reg, userID, serverID, publicKey, allowedIPs) ==
    reg \cup {Row(userID, serverID, publicKey, allowedIPs, TRUE)}

\* Mutant of Upsert: DO UPDATE SET lacks "is_active = true", so the row of
\* the pair keeps the state it had.
UpsertKeepsState(reg, userID, serverID, publicKey, allowedIPs) ==
    LET old == Conflicting(reg, userID, serverID)
    IN  (reg \ old)
            \cup {Row(userID, serverID, publicKey, allowedIPs,
                      \A r \in old : r.is_active)}

\* INSERT ... ON CONFLICT (user_id, server_id) DO UPDATE SET public_key,
\* allowed_ips, is_active = true
Upsert(reg, userID, serverID, publicKey, allowedIPs) ==
    (reg \ Conflicting(reg, userID, serverID))
        \cup {Row(userID, serverID, publicKey, allowedIPs, TRUE)}

\* Mutant of ActiveRows: the query lacks "AND is_active = true".
ActiveRowsAnyState(reg, userID, serverID) ==
    {r \in reg : r.user_id = userID /\ r.server_id = serverID}

\* SELECT ... WHERE user_id = $1 AND server_id = $2 AND is_active = true
ActiveRows(reg, userID, serverID) ==
    {r \in reg : r.user_id = userID /\ r.server_id = serverID /\ r.is_active}

\* UPDATE user_keys SET is_active = false WHERE user_id = $1 AND server_id = $2
Deactivate(reg, userID, serverID) ==
    {IF r.user_id = userID /\ r.server_id = serverID
     THEN [r EXCEPT !.is_active = FALSE] ELSE r : r \in reg}

\* ConfigureDevice with one PeerConfig{PublicKey, AllowedIPs,
\* ReplaceAllowedIPs: true, PersistentKeepaliveInterval: 25s}
ConfigureAdd(dev, pubKey, allowedIPNet) ==
    [dev EXCEPT ![pubKey] = [present |-> TRUE, allowedIPs |-> {allowedIPNet},
                             keepalive |-> Keepalive]]

\* Mutant of ConfigureRemove: the Config also sets ReplacePeers, which
\* drops every peer the Config does not list.
ConfigureRemoveReplacePeers(dev, pubKey) == [k \in DOMAIN dev |-> NoPeer]

\* ConfigureDevice with one PeerConfig{PublicKey, Remove: true}
ConfigureRemove(dev, pubKey) == [dev EXCEPT ![pubKey] = NoPeer]

\* ListAuthorizedPeers: the public keys of device.Peers
ListAuthorizedPeers == {k \in DOMAIN device : device[k].present}

\* ------------------------------------------------------------ the state

\* A worker's record: pc is its position in the call, calls the database
\* and device-adapter calls made so far (history), log the lines logged.
\* ------------------------------------------------------------ accounts

\* Emails and passwords are strings, sequences of characters, each
\* abstracted to what the validators read of it.  In an email: "a" a
\* letter, "1" a digit, "." "-" "_" themselves, "@", " " a blank.  In a
\* password: "U" an uppercase letter, "l" a lowercase letter, "1" a digit
\* (one byte each) and "é" a letter outside ASCII (two bytes in UTF-8).
Email(u) == Repeat("a", u) \o <<"@", "a", ".", "a", "a">>
GoodPassword == <<"U">> \o Repeat("l", MaxLetters) \o <<"1">>

\* AuthService.HashPassword and VerifyPassword: bcrypt, a one-way hash
\* that only the same password verifies against.
HashPassword(password) == <<"bcrypt", password>>
VerifyPassword(password, hash) == hash = <<"bcrypt", password>>

\* A users row: INSERT INTO users (email, password_hash), the id and
\* is_active from the column defaults.
UserRow(id, email, passwordHash) ==
    [id |-> id, email |-> email, password_hash |-> passwordHash,
     is_active |-> TRUE]

\* The users table when every user that sends requests has registered.
Registered == {UserRow(u, Email(u), HashPassword(GoodPassword)) : u \in Users}

IdleProc ==
    [pc |-> "idle", op |-> "none", user |-> 0, server |-> "none",
     key |-> NoKey, ip |-> NoIP, calls |-> <<>>, log |-> {}]

NoneReturned == [op |-> "none", result |-> NoResult, calls |-> <<>>, log |-> {}]

\* A servers row.
ServerRow(id, publicKey, active) ==
    [id |-> id, endpoint |-> "35.78.89.198", port |-> DefaultPort,
     public_key |-> publicKey, is_active |-> active]

\* The main goroutine at the start of main.
Starting ==
    [pc |-> "loop", i |-> 0, attempts |-> 0, slept |-> 0, synced |-> FALSE,
     served |-> FALSE, restarts |-> 0, writes |-> 0, open |-> 0, log |-> {}]

\* The main goroutine after a startup whose first synchronization attempt
\* succeeded: the API server accepts requests.
Serving ==
    [Starting EXCEPT !.pc = "serving", !.attempts = 1, !.synced = TRUE,
                     !.writes = 1, !.log = {LogSynced}]

Running ==
    /\ boot = Serving
    /\ keyFile = <<"A", "\n">>
    /\ servers = {ServerRow(serverIDStr, <<"A">>, TRUE)}

\* NewWireguardService returns a service only when wgctrl.New gave it a
\* client; the table and the device start empty.
Init ==
    /\ Running
    /\ registry = {}
    /\ device = [k \in GoodKeys |-> NoPeer]
    /\ wgClient = TRUE
    /\ proc = [p \in Workers |-> IdleProc]
    /\ returned = NoneReturned
    /\ ncalls = 0
    /\ users = Registered

\* One entry of the call history: the function, whether it returned a nil
\* error, and a note on what it did.
Call(fn, ok, note) == [fn |-> fn, ok |-> ok, note |-> note]

\* ----------------------------------------------- the device adapter

\* authorizeUserInWireGuard: the error it returns, the device after it and
\* the lines it logs; configureOK is the outcome of ConfigureDevice.
authorizeUserInWireGuard(dev, client, publicKey, allowedIPs, configureOK) ==
    LET k == ParseKey(publicKey)
        n == ParseCIDR(allowedIPs)
    IN  IF ~client
        THEN [err |-> ErrNoClient, dev |-> dev, log |-> {LogNoClientAdd}]
        ELSE IF k.err # Nil THEN [err |-> k.err, dev |-> dev, log |-> {}]
        ELSE IF n.err # Nil THEN [err |-> n.err, dev |-> dev, log |-> {}]
        ELSE IF ~configureOK
        THEN [err |-> ErrConfigure, dev |-> dev, log |-> {}]
        ELSE [err |-> Nil, dev |-> ConfigureAdd(dev, k.key, n.net),
              log |-> {LogEngineAdded}]

\* removeUserFromWireGuard: a nil client is logged and reported as success.
removeUserFromWireGuard(dev, client, publicKey, configureOK) ==
    LET k == ParseKey(publicKey)
    IN  IF ~client
        THEN [err |-> Nil, dev |-> dev, log |-> {LogNoClientRemove}]
        ELSE IF k.err # Nil THEN [err |-> k.err, dev |-> dev, log |-> {}]
        ELSE IF ~configureOK
        THEN [err |-> ErrRemove, dev |-> dev, log |-> {}]
        ELSE [err |-> Nil, dev |-> ConfigureRemove(dev, k.key),
              log |-> {LogEngineRemoved}]

\* ------------------------------------------------------------- workers

\* The workers are interchangeable: a request goes to the first idle one.
Takes(p) ==
    /\ proc[p].pc = "idle"
    /\ \A q \in Workers : q < p => proc[q].pc # "idle"
    /\ ncalls < MaxCalls

\* Worker p goes on with its call: locals is its record after the step.
Continue(p, locals) ==
    /\ proc' = [proc EXCEPT ![p] = locals]
    /\ UNCHANGED returned
    /\ UNCHANGED <<startupVars, users>>

\* The call of worker p returns result to its caller; the worker is idle.
Finish(p, locals, result) ==
    /\ proc' = [proc EXCEPT ![p] = IdleProc]
    /\ returned' = [op |-> locals.op, result |-> result,
                    calls |-> locals.calls, log |-> locals.log]
    /\ UNCHANGED <<startupVars, users>>

\* ------------------------------------------------- AddUserKey (Authorize)

\* Mutant of AfterValidate: the validation error is ignored.
AfterValidateIgnored(err) == "allocate"

\* AddUserKey, lines 91-96: the call starts by validating the key.
AfterValidate(err) == IF err # Nil THEN "done" ELSE "allocate"

BeginAdd(p, userID, serverID, publicKey) ==
    LET err == ValidatePublicKey(publicKey)
        locals == [IdleProc EXCEPT !.pc = "allocate", !.op = "AddUserKey",
                      !.user = userID, !.server = serverID, !.key = publicKey,
                      !.log = IF err # Nil THEN {LogInvalidKey} ELSE {}]
    IN  /\ Takes(p)
        /\ ncalls' = ncalls + 1
        /\ IF AfterValidate(err) = "done"
           THEN Finish(p, locals, <<ErrInvalidKey, err>>)
           ELSE Continue(p, locals)
        /\ UNCHANGED <<registry, device, wgClient>>

\* AddUserKey, lines 98-102, with allocateUserIP's count query, which
\* succeeds or fails (queryOK).
Allocate(p, queryOK) ==
    LET a == IF queryOK
             THEN allocateUserIP(CountActive(registry, proc[p].server))
             ELSE [err |-> ErrCount, ip |-> NoIP]
        locals == [proc[p] EXCEPT !.pc = "authorize", !.ip = a.ip,
                      !.calls = Append(@, Call("allocateUserIP", a.err = Nil, ""))]
    IN  /\ proc[p].pc = "allocate"
        /\ IF a.err # Nil
           THEN Finish(p, locals, <<ErrAllocate, a.err>>)
           ELSE Continue(p, locals)
        /\ UNCHANGED <<registry, device, wgClient, ncalls>>

\* Mutant of AfterAuthorize: the device error is logged and ignored.
AfterAuthorizeIgnored(err) == "persist"

\* AddUserKey, lines 104-110: a device error ends the call.
AfterAuthorize(err) == IF err # Nil THEN "done" ELSE "persist"

Authorize(p, configureOK) ==
    LET r == authorizeUserInWireGuard(device, wgClient, proc[p].key,
                                      proc[p].ip, configureOK)
        locals == [proc[p] EXCEPT !.pc = "persist",
                      !.log = @ \cup r.log \cup
                          (IF r.err # Nil THEN {LogAuthorizeFailed} ELSE {}),
                      !.calls = Append(@,
                          Call("authorizeUserInWireGuard", r.err = Nil, ""))]
    IN  /\ proc[p].pc = "authorize"
        /\ device' = r.dev
        /\ IF AfterAuthorize(r.err) = "done"
           THEN Finish(p, locals, <<ErrAuthorize, r.err>>)
           ELSE Continue(p, locals)
        /\ UNCHANGED <<registry, wgClient, ncalls>>

\* History note of an upsert: what the conflict target matched.
UpsertNote(reg, userID, serverID, publicKey) ==
    LET old == Conflicting(reg, userID, serverID)
    IN  IF old = {} THEN "inserted"
        ELSE IF \E r \in old : r.public_key = publicKey /\ r.is_active
        THEN "replaced active row with the same key"
        ELSE IF \A r \in old : ~r.is_active THEN "reactivated"
        ELSE "replaced"

\* AddUserKey, lines 112-134 and 143-149: the upsert succeeds.
Persist(p) ==
    /\ proc[p].pc = "persist"
    /\ registry' = Upsert(registry, proc[p].user, proc[p].server,
                          proc[p].key, proc[p].ip)
    /\ Finish(p, [proc[p] EXCEPT !.log = @ \cup {LogAuthorized},
                     !.calls = Append(@, Call("upsert", TRUE,
                         UpsertNote(registry, proc[p].user, proc[p].server,
                                    proc[p].key)))],
              OK)
    /\ UNCHANGED <<device, wgClient, ncalls>>

\* AddUserKey, lines 125-136: the upsert fails and writes nothing.
PersistError(p) ==
    /\ proc[p].pc = "persist"
    /\ Continue(p, [proc[p] EXCEPT !.pc = "compensate",
                       !.calls = Append(@, Call("upsert", FALSE, ""))])
    /\ UNCHANGED <<registry, device, wgClient, ncalls>>

\* Mutant of PersistFailureResult: a failed compensation is returned in
\* place of the database error.
PersistFailureResultEscalated(removeErr) ==
    IF removeErr # Nil THEN <<ErrRemove, removeErr>>
    ELSE <<ErrPersist, "database error">>

\* AddUserKey, lines 136-141: what the call returns after the compensating
\* removeUserFromWireGuard, whose own error removeErr is discarded.
PersistFailureResult(removeErr) == <<ErrPersist, "database error">>

\* AddUserKey, line 138: the key handed to removeUserFromWireGuard.
CompensationKey(publicKey) == publicKey

\* AddUserKey, lines 138-139: the lines AddUserKey logs on this path.
PersistFailureLog(removeErr) == {LogPersistFailed}

\* Mutant of Compensate: the call returns the database error without
\* revoking the peer.
CompensateSkipped(p, configureOK) ==
    /\ proc[p].pc = "compensate"
    /\ Finish(p, [proc[p] EXCEPT !.log = @ \cup PersistFailureLog(Nil)],
              PersistFailureResult(Nil))
    /\ UNCHANGED <<registry, device, wgClient, ncalls>>

Compensate(p, configureOK) ==
    LET r == removeUserFromWireGuard(device, wgClient,
                                     CompensationKey(proc[p].key), configureOK)
    IN  /\ proc[p].pc = "compensate"
        /\ device' = r.dev
        /\ Finish(p, [proc[p] EXCEPT
                        !.log = @ \cup r.log \cup PersistFailureLog(r.err),
                        !.calls = Append(@, Call("removeUserFromWireGuard",
                                                 r.err = Nil, ""))],
                  PersistFailureResult(r.err))
        /\ UNCHANGED <<registry, wgClient, ncalls>>

\* --------------------------------------------- RemoveUserKey (Deauthorize)

BeginRemove(p, userID, serverID) ==
    /\ Takes(p)
    /\ ncalls' = ncalls + 1
    /\ Continue(p, [IdleProc EXCEPT !.pc = "lookup", !.op = "RemoveUserKey",
                       !.user = userID, !.server = serverID])
    /\ UNCHANGED <<registry, device, wgClient>>

\* RemoveUserKey, lines 347-350, with GetUserKey: the active row is found.
Lookup(p) ==
    /\ proc[p].pc = "lookup"
    /\ \E r \in ActiveRows(registry, proc[p].user, proc[p].server) :
         Continue(p, [proc[p] EXCEPT !.pc = "revoke", !.key = r.public_key,
                         !.ip = r.allowed_ips,
                         !.calls = Append(@, Call("GetUserKey", TRUE, ""))])
    /\ UNCHANGED <<registry, device, wgClient, ncalls>>

\* GetUserKey, lines 172-174: no active row (queryOK), or the query failed;
\* both are reported as "user key not found".
LookupError(p, queryOK) ==
    /\ proc[p].pc = "lookup"
    /\ queryOK => ActiveRows(registry, proc[p].user, proc[p].server) = {}
    /\ Finish(p, [proc[p] EXCEPT
                     !.calls = Append(@, Call("GetUserKey", FALSE,
                         IF queryOK THEN "no rows" ELSE "query failed"))],
              <<ErrNotFound, ErrNotFound>>)
    /\ UNCHANGED <<registry, device, wgClient, ncalls>>

\* Mutant of Revoke: a failed revoke ends the call with the device error.
RevokeBlocking(p, configureOK) ==
    LET r == removeUserFromWireGuard(device, wgClient, proc[p].key, configureOK)
        locals == [proc[p] EXCEPT !.pc = "deactivate",
                      !.log = @ \cup r.log \cup
                          (IF r.err # Nil THEN {LogRemoveFailed} ELSE {}),
                      !.calls = Append(@, Call("removeUserFromWireGuard",
                                               r.err = Nil, ""))]
    IN  /\ proc[p].pc = "revoke"
        /\ device' = r.dev
        /\ IF r.err # Nil
           THEN Finish(p, locals, <<ErrRemove, r.err>>)
           ELSE Continue(p, locals)
        /\ UNCHANGED <<registry, wgClient, ncalls>>

\* Mutant of Revoke: the row is marked inactive before the revoke.
RevokeMarksInactiveFirst(p, configureOK) ==
    LET r == removeUserFromWireGuard(device, wgClient, proc[p].key, configureOK)
    IN  /\ proc[p].pc = "revoke"
        /\ registry' = Deactivate(registry, proc[p].user, proc[p].server)
        /\ device' = r.dev
        /\ Continue(p, [proc[p] EXCEPT !.pc = "deactivate",
               !.log = @ \cup r.log \cup
                   (IF r.err # Nil THEN {LogRemoveFailed} ELSE {}),
               !.calls = Append(@, Call("removeUserFromWireGuard",
                                        r.err = Nil, ""))])
        /\ UNCHANGED <<wgClient, ncalls>>

\* RemoveUserKey, lines 352-356: the revoke is best-effort.
Revoke(p, configureOK) ==
    LET r == removeUserFromWireGuard(device, wgClient, proc[p].key, configureOK)
    IN  /\ proc[p].pc = "revoke"
        /\ device' = r.dev
        /\ Continue(p, [proc[p] EXCEPT !.pc = "deactivate",
               !.log = @ \cup r.log \cup
                   (IF r.err # Nil THEN {LogRemoveFailed} ELSE {}),
               !.calls = Append(@, Call("removeUserFromWireGuard",
                                        r.err = Nil, ""))])
        /\ UNCHANGED <<registry, wgClient, ncalls>>

\* RemoveUserKey, lines 358-369: the UPDATE succeeds.
DeactivateRow(p) ==
    /\ proc[p].pc = "deactivate"
    /\ registry' = Deactivate(registry, proc[p].user, proc[p].server)
    /\ Finish(p, [proc[p] EXCEPT !.log = @ \cup {LogRemoved},
                     !.calls = Append(@, Call("deactivate", TRUE, ""))],
              OK)
    /\ UNCHANGED <<device, wgClient, ncalls>>

\* RemoveUserKey, lines 360-363: the UPDATE fails.
DeactivateError(p) ==
    /\ proc[p].pc = "deactivate"
    /\ Finish(p, [proc[p] EXCEPT !.calls = Append(@, Call("deactivate", FALSE, ""))],
              <<ErrDeactivate, "database error">>)
    /\ UNCHANGED <<registry, device, wgClient, ncalls>>

\* ------------------------------------------------------ specifications

\* Every interleaving of the calls, every database statement and every
\* ConfigureDevice call succeeding or failing.
Next ==
    \/ \E p \in Workers, u \in Users, s \in Servers, k \in KeyInputs :
          BeginAdd(p, u, s, k)
    \/ \E p \in Workers, queryOK \in BOOLEAN : Allocate(p, queryOK)
    \/ \E p \in Workers, configureOK \in BOOLEAN : Authorize(p, configureOK)
    \/ \E p \in Workers : Persist(p)
    \/ \E p \in Workers : PersistError(p)
    \/ \E p \in Workers, configureOK \in BOOLEAN : Compensate(p, configureOK)
    \/ \E p \in Workers, u \in Users, s \in Servers : BeginRemove(p, u, s)
    \/ \E p \in Workers : Lookup(p)
    \/ \E p \in Workers, queryOK \in BOOLEAN : LookupError(p, queryOK)
    \/ \E p \in Workers, configureOK \in BOOLEAN : Revoke(p, configureOK)
    \/ \E p \in Workers : DeactivateRow(p)
    \/ \E p \in Workers : DeactivateError(p)

Spec == Init /\ [][Next]_vars

\* The behaviours in which every database statement and every device call
\* succeeds.
NextNoFail ==
    \/ \E p \in Workers, u \in Users, s \in Servers, k \in KeyInputs :
          BeginAdd(p, u, s, k)
    \/ \E p \in Workers : Allocate(p, TRUE)
    \/ \E p \in Workers : Authorize(p, TRUE)
    \/ \E p \in Workers : Persist(p)
    \/ \E p \in Workers, u \in Users, s \in Servers : BeginRemove(p, u, s)
    \/ \E p \in Workers : Lookup(p)
    \/ \E p \in Workers : LookupError(p, TRUE)
    \/ \E p \in Workers : Revoke(p, TRUE)
    \/ \E p \in Workers : DeactivateRow(p)

SpecNoFail == Init /\ [][NextNoFail]_vars

\* The calls run one after the other on one worker and every one of them
\* succeeds: the keys are well formed, every database statement and every
\* device call succeeds, and RemoveUserKey is called for pairs that hold
\* an active row.
NextSucceeding ==
    \/ \E u \in Users, k \in GoodKeys : BeginAdd(1, u, "s1", k)
    \/ Allocate(1, TRUE)
    \/ Authorize(1, TRUE)
    \/ Persist(1)
    \/ \E u \in Users : /\ ActiveRows(registry, u, "s1") # {}
                        /\ BeginRemove(1, u, "s1")
    \/ Lookup(1)
    \/ Revoke(1, TRUE)
    \/ DeactivateRow(1)

SpecSucceeding == Init /\ [][NextSucceeding]_vars

\* A server's registry with n active rows, of users 1..n, as n successive
\* allocations leave it.
AnyKey == CHOOSE k \in GoodKeys : k.id = 1
RowsOf(n) ==
    {Row(i, "s1", AnyKey, Sprintf(FirstHost + ((i - 1) % MaxPeers)), TRUE) :
        i \in 1..n}

\* Allocation alone, by one worker, on a server with any number of active
\* rows.
InitAlloc ==
    /\ Running
    /\ registry \in {RowsOf(n) : n \in 0..MaxCount}
    /\ device = [k \in GoodKeys |-> NoPeer]
    /\ wgClient = TRUE
    /\ proc = [p \in Workers |-> IdleProc]
    /\ returned = NoneReturned
    /\ ncalls = 0
    /\ users = Registered

NextAlloc ==
    \/ \E u \in Users, s \in Servers, k \in KeyInputs : BeginAdd(1, u, s, k)
    \/ \E queryOK \in BOOLEAN : Allocate(1, queryOK)

SpecAlloc == InitAlloc /\ [][NextAlloc]_vars

\* One worker and one (user, server) pair: the calls for the pair run one
\* after the other, every database statement and every ConfigureDevice call
\* succeeding or failing.
NextOnePair ==
    \/ \E k \in KeyInputs : BeginAdd(1, 1, "s1", k)
    \/ \E queryOK \in BOOLEAN : Allocate(1, queryOK)
    \/ \E configureOK \in BOOLEAN : Authorize(1, configureOK)
    \/ Persist(1)
    \/ PersistError(1)
    \/ \E configureOK \in BOOLEAN : Compensate(1, configureOK)
    \/ BeginRemove(1, 1, "s1")
    \/ Lookup(1)
    \/ \E queryOK \in BOOLEAN : LookupError(1, queryOK)
    \/ \E configureOK \in BOOLEAN : Revoke(1, configureOK)
    \/ DeactivateRow(1)
    \/ DeactivateError(1)

SpecOnePair == Init /\ [][NextOnePair]_vars

\* The state after AddUserKey(1, "s1", k) succeeded on the empty table for
\* the first of the keys: the pair's row is active with the first address
\* and the device holds the key with that address.
FirstKey == CHOOSE k \in GoodKeys : k.id = 1
AuthorizedRegistry == {Row(1, "s1", FirstKey, Sprintf(FirstHost), TRUE)}
AuthorizedDevice ==
    ConfigureAdd([k \in GoodKeys |-> NoPeer], FirstKey,
                 ParseCIDR(Sprintf(FirstHost)).net)

InitReauthorize ==
    /\ Running
    /\ registry = AuthorizedRegistry
    /\ device = AuthorizedDevice
    /\ wgClient = TRUE
    /\ proc = [p \in Workers |-> IdleProc]
    /\ returned = NoneReturned
    /\ ncalls = 0
    /\ users = Registered

\* The calls that follow for the pair, one after the other, every
\* database statement and every ConfigureDevice call succeeding or failing.
SpecReauthorize == InitReauthorize /\ [][NextOnePair]_vars

\* Concurrent AddUserKey calls of one user for one server, with one
\* well-formed key or another, no call failing.
NextSamePair ==
    \/ \E p \in Workers, k \in KeyInputs : BeginAdd(p, 1, "s1", k)
    \/ \E p \in Workers : Allocate(p, TRUE)
    \/ \E p \in Workers : Authorize(p, TRUE)
    \/ \E p \in Workers : Persist(p)

SpecSamePair == Init /\ [][NextSamePair]_vars

\* Two servers in the Server Directory, each with its own users: user 1
\* asks for server "s1" and user 2 for the other server, with one
\* well-formed key or another, two requests at a time, no call failing.
\* The service drives the one device "wg0" for both (deviceName, lines
\* 29-42).
PairOf(u) == IF u = 1 THEN serverIDStr ELSE OtherServer

InitTwoServers ==
    /\ boot = Serving
    /\ keyFile = <<"A", "\n">>
    /\ servers = {ServerRow(serverIDStr, <<"A">>, TRUE),
                  ServerRow(OtherServer, <<"O">>, TRUE)}
    /\ registry = {}
    /\ device = [k \in GoodKeys |-> NoPeer]
    /\ wgClient = TRUE
    /\ proc = [p \in Workers |-> IdleProc]
    /\ returned = NoneReturned
    /\ ncalls = 0
    /\ users = Registered

NextTwoServers ==
    \/ \E p \in Workers, u \in Users, k \in GoodKeys :
          BeginAdd(p, u, PairOf(u), k)
    \/ \E p \in Workers : Allocate(p, TRUE)
    \/ \E p \in Workers : Authorize(p, TRUE)
    \/ \E p \in Workers : Persist(p)
    \/ \E p \in Workers, u \in Users : BeginRemove(p, u, PairOf(u))
    \/ \E p \in Workers : Lookup(p)
    \/ \E p \in Workers : LookupError(p, TRUE)
    \/ \E p \in Workers : Revoke(p, TRUE)
    \/ \E p \in Workers : DeactivateRow(p)

SpecTwoServers == InitTwoServers /\ [][NextTwoServers]_vars

\* ------------------------------------------------------------- startup

\* unicode.IsSpace on the characters that occur.
IsSpace(c) == c \in {" ", "\n", "\t"}

RECURSIVE TrimLeft(_)
TrimLeft(str) ==
    IF str # <<>> /\ IsSpace(Head(str)) THEN TrimLeft(Tail(str)) ELSE str

RECURSIVE TrimRight(_)
TrimRight(str) ==
    IF str # <<>> /\ IsSpace(str[Len(str)])
    THEN TrimRight(SubSeq(str, 1, Len(str) - 1)) ELSE str

\* strings.TrimSpace
TrimSpace(str) == TrimRight(TrimLeft(str))

\* Mutant of RowsToUpdate: the UPDATE has no condition on public_key.
RowsToUpdateUnconditional(tbl, publicKey, serverID) ==
    {r \in tbl : r.id = serverID}

\* The rows the UPDATE of SyncServerPublicKey matches:
\* WHERE id = $2 AND (public_key IS NULL OR public_key != $1)
RowsToUpdate(tbl, publicKey, serverID) ==
    {r \in tbl : r.id = serverID
                 /\ (r.public_key = NULL \/ r.public_key # publicKey)}

\* UPDATE servers SET public_key = $1 on those rows.
UpdatePublicKey(tbl, publicKey, serverID) ==
    LET hit == RowsToUpdate(tbl, publicKey, serverID)
    IN  (tbl \ hit) \cup {[r EXCEPT !.public_key = publicKey] : r \in hit}

\* Mutant of SyncServerPublicKey: the trimmed content is not tested for
\* being empty.
SyncServerPublicKeyNoEmptyTest(file, tbl, serverID, execOK) ==
    LET publicKey == TrimSpace(file)
    IN  IF file = NoFile
        THEN [err |-> ErrReadKeyFile, tbl |-> tbl, affected |-> 0, log |-> {}]
        ELSE IF ~execOK
        THEN [err |-> ErrUpdateKey, tbl |-> tbl, affected |-> 0, log |-> {}]
        ELSE [err |-> Nil,
              tbl |-> UpdatePublicKey(tbl, publicKey, serverID),
              affected |-> Cardinality(RowsToUpdate(tbl, publicKey, serverID)),
              log |-> IF RowsToUpdate(tbl, publicKey, serverID) # {}
                      THEN {LogSynced} ELSE {LogUpToDate}]

\* SyncServerPublicKey: the error it returns, the table after it, the rows
\* its UPDATE affected and the line it logs; execOK is the outcome of Exec.
SyncServerPublicKey(file, tbl, serverID, execOK) ==
    LET publicKey == TrimSpace(file)
    IN  IF file = NoFile
        THEN [err |-> ErrReadKeyFile, tbl |-> tbl, affected |-> 0, log |-> {}]
        ELSE IF publicKey = <<>>
        THEN [err |-> ErrEmptyKeyFile, tbl |-> tbl, affected |-> 0, log |-> {}]
        ELSE IF ~execOK
        THEN [err |-> ErrUpdateKey, tbl |-> tbl, affected |-> 0, log |-> {}]
        ELSE [err |-> Nil,
              tbl |-> UpdatePublicKey(tbl, publicKey, serverID),
              affected |-> Cardinality(RowsToUpdate(tbl, publicKey, serverID)),
              log |-> IF RowsToUpdate(tbl, publicKey, serverID) # {}
                      THEN {LogSynced} ELSE {LogUpToDate}]

\* Mutant of LoopTest: one attempt too many.
LoopTestOffByOne(i) == i <= MaxRetries

\* synchronizeKeys, line 31: i < maxRetries
LoopTest(i) == i < MaxRetries

\* Mutant of OnExhausted: the failure is logged and main goes on.
OnExhaustedWarn(i) == "start"

\* synchronizeKeys, line 40: logger.Fatal ends the process.
OnExhausted(i) == "fatal"

\* synchronizeKeys, lines 31-37: one attempt of the loop.
Attempt(execOK) ==
    LET r == SyncServerPublicKey(keyFile, servers, serverIDStr, execOK)
    IN  /\ boot.pc = "loop"
        /\ LoopTest(boot.i)
        /\ servers' = r.tbl
        /\ boot' = [boot EXCEPT
                      !.pc = IF r.err = Nil THEN "start" ELSE "sleep",
                      !.attempts = @ + 1,
                      !.synced = (r.err = Nil),
                      !.writes = @ + r.affected,
                      !.log = r.log]
        /\ UNCHANGED <<keyFile, serviceVars, users>>

\* synchronizeKeys, line 38 and the loop's i++.
Sleep ==
    /\ boot.pc = "sleep"
    /\ boot' = [boot EXCEPT !.pc = "loop", !.i = @ + 1,
                            !.slept = @ + RetryWait]
    /\ UNCHANGED <<keyFile, servers, serviceVars, users>>

\* synchronizeKeys, line 40: the loop ended without a success.
Exhausted ==
    /\ boot.pc = "loop"
    /\ ~LoopTest(boot.i)
    /\ boot' = [boot EXCEPT !.pc = OnExhausted(boot.i)]
    /\ UNCHANGED <<keyFile, servers, serviceVars, users>>

\* main, lines 79-89: synchronizeKeys returned; the API server starts.
StartServer ==
    /\ boot.pc = "start"
    /\ boot' = [boot EXCEPT !.pc = "serving"]
    /\ UNCHANGED <<keyFile, servers, serviceVars, users>>

\* The running API server serves a request.
ServeRequest ==
    /\ boot.pc = "serving"
    /\ boot' = [boot EXCEPT !.served = TRUE]
    /\ UNCHANGED <<keyFile, servers, serviceVars, users>>

\* The process, ended or stopped, is started again; the history of
\* directory writes is kept.
Restart ==
    /\ boot.pc \in {"fatal", "serving"}
    /\ boot.restarts < MaxRestarts
    /\ boot' = [Starting EXCEPT !.restarts = boot.restarts + 1,
                                !.writes = boot.writes]
    /\ UNCHANGED <<keyFile, servers, serviceVars, users>>

\* The wireguard container creates the key file.
CreateKeyFile(content) ==
    /\ keyFile = NoFile
    /\ keyFile' = content
    /\ UNCHANGED <<boot, servers, serviceVars, users>>

\* The servers table at process start: the row of the managed server with
\* any stored key or none, or no such row, beside a row of another id.
InitStartup ==
    /\ boot = Starting
    /\ keyFile \in FileContents \cup {NoFile}
    /\ servers \in
         {{ServerRow(OtherServer, <<"O">>, TRUE)} \cup own :
             own \in {{}} \cup {{ServerRow(serverIDStr, k, TRUE)} : k \in StoredKeys}}
    /\ registry = {}
    /\ device = [k \in GoodKeys |-> NoPeer]
    /\ wgClient = TRUE
    /\ proc = [p \in Workers |-> IdleProc]
    /\ returned = NoneReturned
    /\ ncalls = 0
    /\ users = {}

MainStep ==
    \/ \E execOK \in BOOLEAN : Attempt(execOK)
    \/ Sleep
    \/ Exhausted
    \/ StartServer

NextStartup ==
    \/ \E execOK \in BOOLEAN : Attempt(execOK)
    \/ Sleep
    \/ Exhausted
    \/ StartServer
    \/ ServeRequest
    \/ Restart
    \/ \E content \in FileContents : CreateKeyFile(content)

SpecStartup == InitStartup /\ [][NextStartup]_vars

\* The main goroutine keeps running: it is not stopped between its steps.
SpecStartupLive == SpecStartup /\ WF_vars(MainStep)

\* ------------------------------------------- default-server bootstrap

\* The main that bootstraps the directory (the second main of the source)
\* calls InitializeDefaultServers before it starts the API server, logs a
\* warning when it returns an error, and starts the server either way.
LogSkipped == "Servers already exist, skipping initialization"
LogInitialized == "Default servers initialized successfully"

\* InitializeDefaultServers, lines 314-322: the servers it creates.
defaultServers ==
    << [id |-> "d1", name |-> "US-East-1", endpoint |-> "vpn-us-east.example.com"],
       [id |-> "d2", name |-> "EU-West-1", endpoint |-> "vpn-eu-west.example.com"],
       [id |-> "d3", name |-> "Asia-1", endpoint |-> "vpn-asia.example.com"] >>

\* WireguardService.GenerateKeyPair: the n-th pair the process draws from
\* rand.Read, the public key derived from the private one.
GenerateKeyPair(n) ==
    [private |-> <<"private", n>>, public |-> <<"public", n>>]

\* ServerService.CreateServer as InitializeDefaultServers calls it: the
\* row of the i-th default server, with the n-th key pair and port 51820;
\* its id as uuid_generate_v4 gives it.
DefaultServer(i, n) ==
    [ServerRow(defaultServers[i].id, GenerateKeyPair(n).public, TRUE)
        EXCEPT !.endpoint = defaultServers[i].endpoint]

\* The main goroutine at the start of the bootstrapping main.
Bootstrapping == [Starting EXCEPT !.pc = "count"]

\* InitializeDefaultServers, lines 302-311: SELECT COUNT(*) FROM servers,
\* which succeeds or fails.
CountServers(countOK) ==
    /\ boot.pc = "count"
    /\ boot' = IF ~countOK
               THEN [boot EXCEPT !.pc = "start",
                        !.log = @ \cup {"Failed to initialize default servers"}]
               ELSE IF Cardinality(servers) > 0
               THEN [boot EXCEPT !.pc = "start", !.log = @ \cup {LogSkipped}]
               ELSE [boot EXCEPT !.pc = "create", !.i = 0]
    /\ UNCHANGED <<keyFile, servers, serviceVars, users>>

\* InitializeDefaultServers, lines 324-339: after a failed GenerateKeyPair
\* or CreateServer the loop continues with the next server; after the last
\* server the function logs success and returns nil.
AfterCreate(ok, i) == IF i + 1 < Len(defaultServers) THEN "create" ELSE "done"

\* InitializeDefaultServers, lines 324-336: one iteration of the loop.
\* GenerateKeyPair and the INSERT of CreateServer each succeed or fail.
CreateDefault(genOK, createOK) ==
    LET ok == genOK /\ createOK
        after == AfterCreate(ok, boot.i)
        line == IF ~genOK THEN {"Failed to generate keys for server"}
                ELSE IF ~createOK THEN {"Failed to create default server"}
                ELSE {}
    IN  /\ boot.pc = "create"
        /\ servers' = IF ok
                      THEN servers \cup {DefaultServer(boot.i + 1, boot.attempts + 1)}
                      ELSE servers
        /\ boot' = [boot EXCEPT
                      !.pc = IF after = "create" THEN "create" ELSE "start",
                      !.i = @ + 1,
                      !.attempts = @ + (IF genOK THEN 1 ELSE 0),
                      !.writes = @ + (IF ok THEN 1 ELSE 0),
                      !.log = @ \cup line \cup
                          (IF after = "done" THEN {LogInitialized} ELSE {})]
        /\ UNCHANGED <<keyFile, serviceVars, users>>

\* The bootstrapping process, stopped, is started again.
RestartBootstrap ==
    /\ boot.pc = "serving"
    /\ boot.restarts < MaxRestarts
    /\ boot' = [Bootstrapping EXCEPT !.restarts = boot.restarts + 1]
    /\ UNCHANGED <<keyFile, servers, serviceVars, users>>

\* The servers table when the bootstrapping main starts: empty, or with a
\* row, active or not.
InitBootstrap ==
    /\ boot = Bootstrapping
    /\ keyFile = NoFile
    /\ servers \in {{}, {ServerRow(serverIDStr, <<"A">>, TRUE)},
                     {ServerRow(serverIDStr, <<"A">>, FALSE)}}
    /\ registry = {}
    /\ device = [k \in GoodKeys |-> NoPeer]
    /\ wgClient = TRUE
    /\ proc = [p \in Workers |-> IdleProc]
    /\ returned = NoneReturned
    /\ ncalls = 0
    /\ users = {}

NextBootstrap ==
    \/ \E countOK \in BOOLEAN : CountServers(countOK)
    \/ \E genOK \in BOOLEAN, createOK \in BOOLEAN : CreateDefault(genOK, createOK)
    \/ StartServer
    \/ ServeRequest
    \/ RestartBootstrap

SpecBootstrap == InitBootstrap /\ [][NextBootstrap]_vars

\* ------------------------------------------------------- GenerateConfig

\* Mutant of RenderConfig: the endpoint is rendered without the port.
RenderConfigNoPort(clientPrivateKey, allowedIPs, serverKey, endpoint, port) ==
    << <<"[Interface]">>,
       <<"PrivateKey", "=", clientPrivateKey>>,
       <<"Address", "=", allowedIPs>>,
       <<"DNS", "=", "1.1.1.1, 8.8.8.8">>,
       <<>>,
       <<"[Peer]">>,
       <<"PublicKey", "=", serverKey>>,
       <<"Endpoint", "=", endpoint>>,
       <<"AllowedIPs", "=", "0.0.0.0/0, ::/0">>,
       <<"PersistentKeepalive", "=", "25">> >>

\* GenerateConfig, lines 209-226: the document, line by line, each line
\* the pieces the format string and its arguments put on it.
RenderConfig(clientPrivateKey, allowedIPs, serverKey, endpoint, port) ==
    << <<"[Interface]">>,
       <<"PrivateKey", "=", clientPrivateKey>>,
       <<"Address", "=", allowedIPs>>,
       <<"DNS", "=", "1.1.1.1, 8.8.8.8">>,
       <<>>,
       <<"[Peer]">>,
       <<"PublicKey", "=", serverKey>>,
       <<"Endpoint", "=", endpoint, ":", port>>,
       <<"AllowedIPs", "=", "0.0.0.0/0, ::/0">>,
       <<"PersistentKeepalive", "=", "25">> >>

\* Mutant of ActiveServers: the query without its is_active condition.
ActiveServersAnyState(tbl, serverID) ==
    {r \in tbl : r.id = serverID /\ r.public_key # NULL}

\* SELECT ... FROM servers WHERE id = $1 AND is_active = true, scanned
\* into a models.Server: a NULL public_key does not scan into a string.
ActiveServers(tbl, serverID) ==
    {r \in tbl : r.id = serverID /\ r.is_active /\ r.public_key # NULL}

\* GenerateConfig: the error and the document it returns, and the line it
\* logs.
GenerateConfig(reg, tbl, userID, serverID, clientPrivateKey) ==
    IF ActiveServers(tbl, serverID) = {}
    THEN [err |-> ErrServerNotFound, config |-> <<>>, log |-> {LogServerNotFound}]
    ELSE IF ActiveRows(reg, userID, serverID) = {}
    THEN [err |-> ErrNotFound, config |-> <<>>, log |-> {}]
    ELSE LET server == CHOOSE r \in ActiveServers(tbl, serverID) : TRUE
             userKey == CHOOSE r \in ActiveRows(reg, userID, serverID) : TRUE
         IN  [err |-> Nil, log |-> {LogConfigGenerated},
              config |-> RenderConfig(clientPrivateKey, userKey.allowed_ips,
                                      server.public_key, server.endpoint,
                                      server.port)]

\* One call of GenerateConfig: it reads the two tables and returns.
CallGenerateConfig(p, userID, serverID, clientPrivateKey) ==
    LET g == GenerateConfig(registry, servers, userID, serverID, clientPrivateKey)
        locals == [IdleProc EXCEPT !.op = "GenerateConfig", !.user = userID,
                      !.server = serverID,
                      !.calls = <<Call("GenerateConfig", g.err = Nil, "")>>]
    IN  /\ Takes(p)
        /\ ncalls' = ncalls + 1
        /\ proc' = [proc EXCEPT ![p] = IdleProc]
        /\ returned' = [op |-> "GenerateConfig",
                        result |-> IF g.err = Nil THEN g.config ELSE <<g.err>>,
                        calls |-> locals.calls, log |-> g.log]
        /\ UNCHANGED <<registry, device, wgClient, startupVars, users>>

\* The user_keys table with, for each user, no row or one row for the
\* server, with any key, one of two addresses, active or not.
ConfigRegistries ==
    LET Choice == BOOLEAN \X GoodKeys \X {FirstHost, FirstHost + 1} \X BOOLEAN
    IN  {{Row(u, serverIDStr, f[u][2], Sprintf(f[u][3]), f[u][4]) :
             u \in {v \in Users : f[v][1]}} : f \in [Users -> Choice]}

\* The servers table with no row of the server or one row, with any
\* stored key or none, active or not.
ConfigDirectories ==
    {{}} \cup {{ServerRow(serverIDStr, k, a)} : k \in StoredKeys, a \in BOOLEAN}

InitConfig ==
    /\ boot = Serving
    /\ keyFile = <<"A", "\n">>
    /\ servers \in ConfigDirectories
    /\ registry \in ConfigRegistries
    /\ device = [k \in GoodKeys |-> NoPeer]
    /\ wgClient = TRUE
    /\ proc = [p \in Workers |-> IdleProc]
    /\ returned = NoneReturned
    /\ ncalls = 0
    /\ users = Registered

NextConfig ==
    \E u \in Users, sid \in Servers :
        CallGenerateConfig(1, u, sid, "[CLIENT_PRIVATE_KEY]")

SpecConfig == InitConfig /\ [][NextConfig]_vars

\* ---------------------------------------------------- ValidatePublicKey

\* The strings submitted as keys: a run of alphabet characters, up to two
\* padding characters, and then nothing, a line break, a character that
\* is not base64, or one more alphabet character; each also with a line
\* break in front.
KeyStrings ==
    {head \o Repeat("a", n) \o Repeat("=", p) \o tail :
        head \in {<<>>, <<"\n">>}, n \in 0..MaxChars, p \in 0..2,
        tail \in {<<>>, <<"\n">>, <<"!">>, <<"a">>}}

\* One call of ValidatePublicKey on a submitted string: it returns its
\* error and touches nothing.
CallValidatePublicKey(s) ==
    LET err == ValidatePublicKey(DecodeString(s))
    IN  /\ returned' = [op |-> "ValidatePublicKey", result |-> <<err>>,
                        calls |-> <<Call("ValidatePublicKey", err = Nil, s)>>,
                        log |-> {}]
        /\ UNCHANGED <<registry, device, wgClient, proc, ncalls, startupVars, users>>

NextValidate == \E s \in KeyStrings : CallValidatePublicKey(s)

SpecValidate == Init /\ [][NextValidate]_vars

\* ------------------------------------------------------- the HTTP API

jwtSecret == "secret"

\* AuthService.GenerateToken: the claims, signed with the service's
\* secret; the token expires 24 hours later.
GenerateToken(userID, email) ==
    [user_id |-> userID, email |-> email, key |-> jwtSecret, expired |-> FALSE]

\* AuthService.ValidateToken: the signature is verified with the secret
\* and the registered claims (expiry) are validated.
ValidateToken(token) ==
    IF token.key = jwtSecret /\ ~token.expired
    THEN [err |-> Nil, claims |-> token]
    ELSE [err |-> "invalid token", claims |-> token]

\* Mutant of authMiddleware: the token is not validated.
authMiddlewareNoValidation(authHeader) ==
    IF authHeader = <<>>
    THEN [status |-> 401, message |-> "Authorization header required", user_id |-> 0]
    ELSE IF authHeader[1] # "Bearer "
    THEN [status |-> 401, message |-> "Invalid authorization format", user_id |-> 0]
    ELSE IF Tail(authHeader) = <<>>
    THEN [status |-> 401, message |-> "Token required", user_id |-> 0]
    ELSE [status |-> 0, message |-> "", user_id |-> authHeader[2].user_id]

\* authMiddleware: the response it sends instead of calling the handler,
\* or status 0 and the user id it stores for the handler.  The header is
\* its scheme prefix followed by the token, or empty when it is absent.
authMiddleware(authHeader) ==
    IF authHeader = <<>>
    THEN [status |-> 401, message |-> "Authorization header required", user_id |-> 0]
    ELSE IF authHeader[1] # "Bearer "
    THEN [status |-> 401, message |-> "Invalid authorization format", user_id |-> 0]
    ELSE IF Tail(authHeader) = <<>>
    THEN [status |-> 401, message |-> "Token required", user_id |-> 0]
    ELSE IF ValidateToken(authHeader[2]).err # Nil
    THEN [status |-> 401, message |-> "Invalid token", user_id |-> 0]
    ELSE [status |-> 0, message |-> "",
          user_id |-> ValidateToken(authHeader[2]).claims.user_id]

\* A request body: empty, not JSON, or a JSON object, whose fields
\* json.Unmarshal copies into the request struct (a missing field is the
\* empty string).
Body(json, email, password, serverID, publicKey) ==
    [json |-> json, email |-> email, password |-> password,
     server_id |-> serverID, public_key |-> publicKey]

\* The server's routes are registered for one method each.
Route(method, path) ==
    IF path = "/api/users/register" /\ method = "POST" THEN "registerHandler"
    ELSE IF path = "/api/users/login" /\ method = "POST" THEN "loginHandler"
    ELSE IF path = "/api/client/config" /\ method = "GET" THEN "getConfigHandler"
    ELSE IF path = "/api/servers/locations" /\ method = "GET" THEN "getServersHandler"
    ELSE IF path = "/api/health" /\ method = "GET" THEN "healthHandler"
    ELSE "NotFound"

\* Mutant of parseJSONBody: the method of the request is not tested.
parseJSONBodyAnyMethod(method, contentType, body) ==
    IF ~\E i \in DOMAIN contentType : contentType[i] = "application/json"
    THEN "content-type must be application/json"
    ELSE IF body.json = "empty" THEN "request body is empty"
    ELSE IF body.json = "invalid" THEN "invalid JSON"
    ELSE Nil

\* parseJSONBody: the error it returns.  The content type is the pieces
\* of the header's value.
parseJSONBody(method, contentType, body) ==
    IF method # "POST" THEN "method not allowed"
    ELSE IF ~\E i \in DOMAIN contentType : contentType[i] = "application/json"
    THEN "content-type must be application/json"
    ELSE IF body.json = "empty" THEN "request body is empty"
    ELSE IF body.json = "invalid" THEN "invalid JSON"
    ELSE Nil

\* len(s) of a Go string: its length in bytes.
RECURSIVE len(_)
len(s) ==
    IF s = <<>> THEN 0
    ELSE (IF Head(s) = "é" THEN 2 ELSE 1) + len(Tail(s))

\* isValidEmail: the string matches
\* ^[a-zA-Z0-9._%+-]+@[a-zA-Z0-9.-]+\.[a-zA-Z]{2,}$
isValidEmail(email) ==
    \E at \in DOMAIN email, dot \in DOMAIN email :
        /\ email[at] = "@"
        /\ email[dot] = "."
        /\ 1 < at /\ at + 1 < dot
        /\ \A i \in 1..(at - 1) : email[i] \in {"a", "1", ".", "_", "-"}
        /\ \A i \in (at + 1)..(dot - 1) : email[i] \in {"a", "1", ".", "-"}
        /\ Len(email) - dot >= MinTLD
        /\ \A i \in (dot + 1)..Len(email) : email[i] = "a"

\* isStrongPassword: [A-Z], [a-z] and [0-9] each match somewhere.
isStrongPassword(password) ==
    /\ \E i \in DOMAIN password : password[i] = "U"
    /\ \E i \in DOMAIN password : password[i] = "l"
    /\ \E i \in DOMAIN password : password[i] = "1"

\* validateRegistration: the error it returns.
validateRegistration(req) ==
    IF req.email = <<>> THEN "email is required"
    ELSE IF ~isValidEmail(req.email) THEN "invalid email format"
    ELSE IF req.password = <<>> THEN "password is required"
    ELSE IF len(req.password) < MinPassword
    THEN "password must be at least 8 characters"
    ELSE IF ~isStrongPassword(req.password)
    THEN "password must contain at least one uppercase letter, one lowercase letter, and one number"
    ELSE Nil

\* validateLogin: the error it returns.
validateLogin(req) ==
    IF req.email = <<>> THEN "email is required"
    ELSE IF ~isValidEmail(req.email) THEN "invalid email format"
    ELSE IF req.password = <<>> THEN "password is required"
    ELSE Nil

\* UserService.EmailExists
EmailExists(tbl, email) == \E r \in tbl : r.email = email

\* Mutant of GetUserByEmail: the query lacks "AND is_active = true".
GetUserByEmailAnyState(tbl, email) == {r \in tbl : r.email = email}

\* UserService.GetUserByEmail: the active rows of the email.
GetUserByEmail(tbl, email) == {r \in tbl : r.email = email /\ r.is_active}

\* UserService.ToUserResponse: the row without its password hash.
ToUserResponse(user) ==
    [id |-> user.id, email |-> user.email, is_active |-> user.is_active]

\* ServerService.GetActiveServers: the active rows that scan (a NULL
\* public_key does not and its row is skipped).
GetActiveServers(tbl) == {r \in tbl : r.is_active /\ r.public_key # NULL}

\* A client holds a token signed with the service's secret only when the
\* service issued it, on registration or login, to a row of the users
\* table.
Issued(authHeader) ==
    (Len(authHeader) = 2 /\ authHeader[2].key = jwtSecret)
    => \E r \in users : /\ r.id = authHeader[2].user_id
                         /\ r.email = authHeader[2].email

\* The response a handler sends, with the calls it made on the way, is
\* what the request returns; nothing else changes.
Respond(handler, status, data, calls) ==
    /\ returned' = [op |-> handler, result |-> <<status, data>>,
                    calls |-> calls, log |-> {}]
    /\ UNCHANGED <<registry, device, wgClient, proc, ncalls, startupVars>>

\* UserService.CreateUser: the INSERT, which the UNIQUE constraint on
\* users.email (migration 000001, line 10) rejects when a row holds the
\* email.
CreateUser(tbl, id, email, passwordHash) ==
    IF \E r \in tbl : r.email = email
    THEN [err |-> "failed to create user", tbl |-> tbl]
    ELSE [err |-> Nil, tbl |-> tbl \cup {UserRow(id, email, passwordHash)}]

\* The id uuid_generate_v4 gives a new users row: one no row holds.
FreeIds == {u \in Users : \A r \in users : r.id # u}

\* POST /api/users/register.  The EXISTS query and the INSERT each
\* succeed or fail.
registerHandler(method, path, contentType, body, existsOK, createOK) ==
    LET perr == parseJSONBody(method, contentType, body)
        verr == validateRegistration(body)
        id == CHOOSE u \in FreeIds : \A v \in FreeIds : u <= v
        user == UserRow(id, body.email, HashPassword(body.password))
        c1 == <<Call("parseJSONBody", perr = Nil, "")>>
        c2 == Append(c1, Call("validateRegistration", verr = Nil, ""))
        c3 == Append(c2, Call("EmailExists", existsOK, ""))
        c4 == Append(c3, Call("CreateUser", createOK, ""))
    IN  /\ Route(method, path) = "registerHandler"
        /\ IF perr # Nil
           THEN /\ Respond("registerHandler", 400, <<"Invalid request: ", perr>>, c1)
                /\ users' = users
           ELSE IF verr # Nil
           THEN /\ Respond("registerHandler", 400, <<verr>>, c2)
                /\ users' = users
           ELSE IF ~existsOK
           THEN /\ Respond("registerHandler", 500, <<"Internal server error">>, c3)
                /\ users' = users
           ELSE IF EmailExists(users, body.email)
           THEN /\ Respond("registerHandler", 409, <<"Email already registered">>, c3)
                /\ users' = users
           ELSE IF ~createOK
           THEN /\ Respond("registerHandler", 500, <<"Failed to create user">>, c4)
                /\ users' = users
           ELSE /\ FreeIds # {}
                /\ Respond("registerHandler", 200,
                           [user |-> ToUserResponse(user),
                            token |-> GenerateToken(user.id, user.email)], c4)
                /\ users' = CreateUser(users, id, body.email,
                                       HashPassword(body.password)).tbl

\* POST /api/users/login.
loginHandler(method, path, contentType, body) ==
    LET perr == parseJSONBody(method, contentType, body)
        verr == validateLogin(body)
        found == GetUserByEmail(users, body.email)
        user == CHOOSE r \in found : TRUE
        c1 == <<Call("loginHandler", TRUE, body),
                Call("parseJSONBody", perr = Nil, "")>>
        c2 == Append(c1, Call("validateLogin", verr = Nil, ""))
        c3 == Append(c2, Call("GetUserByEmail", found # {}, ""))
        c4 == Append(c3, Call("VerifyPassword",
                              found # {} /\ VerifyPassword(body.password,
                                                          user.password_hash), ""))
    IN  /\ Route(method, path) = "loginHandler"
        /\ users' = users
        /\ IF perr # Nil
           THEN Respond("loginHandler", 400, <<"Invalid request: ", perr>>, c1)
           ELSE IF verr # Nil
           THEN Respond("loginHandler", 400, <<verr>>, c2)
           ELSE IF found = {}
           THEN Respond("loginHandler", 401, <<"Invalid credentials">>, c3)
           ELSE IF ~VerifyPassword(body.password, user.password_hash)
           THEN Respond("loginHandler", 401, <<"Invalid credentials">>, c4)
           ELSE Respond("loginHandler", 200,
                        [user |-> ToUserResponse(user),
                         token |-> GenerateToken(user.id, user.email)], c4)

\* The document getConfigHandler sends once AddUserKey has returned the
\* user's row and GetServerByID the server's.
WireGuardConfig(userKey, server) ==
    [Interface |-> [PrivateKey |-> "[CLIENT_PRIVATE_KEY]",
                    Address |-> userKey.allowed_ips,
                    DNS |-> "1.1.1.1, 8.8.8.8"],
     Peer |-> [PublicKey |-> server.public_key,
               Endpoint |-> <<server.endpoint, ":", server.port>>,
               AllowedIPs |-> "0.0.0.0/0, ::/0"]]

\* ServerService.GetServerByID: the active rows of the id that scan.
GetServerByID(tbl, serverID) ==
    {r \in tbl : r.id = serverID /\ r.is_active /\ r.public_key # NULL}

\* AddUserKey as its caller sees it, from the call to the return: the
\* error it returns, the row it returns, the registry and the device
\* after it and the lines it logged.  The count query, the ConfigureDevice
\* call, the upsert and the compensating ConfigureDevice call each succeed
\* or fail.
AddUserKey(reg, dev, client, userID, serverID, publicKey, queryOK, configureOK, upsertOK, removeOK) ==
    LET verr == ValidatePublicKey(publicKey)
        a == IF queryOK THEN allocateUserIP(CountActive(reg, serverID))
             ELSE [err |-> ErrCount, ip |-> NoIP]
        w == authorizeUserInWireGuard(dev, client, publicKey, a.ip, configureOK)
        c == removeUserFromWireGuard(w.dev, client, CompensationKey(publicKey),
                                     removeOK)
        row == Row(userID, serverID, publicKey, a.ip, TRUE)
    IN  IF AfterValidate(verr) = "done"
        THEN [err |-> <<ErrInvalidKey, verr>>, row |-> row, reg |-> reg,
              dev |-> dev, log |-> {LogInvalidKey}]
        ELSE IF a.err # Nil
        THEN [err |-> <<ErrAllocate, a.err>>, row |-> row, reg |-> reg,
              dev |-> dev, log |-> {}]
        ELSE IF AfterAuthorize(w.err) = "done"
        THEN [err |-> <<ErrAuthorize, w.err>>, row |-> row, reg |-> reg,
              dev |-> w.dev, log |-> w.log \cup {LogAuthorizeFailed}]
        ELSE IF ~upsertOK
        THEN [err |-> PersistFailureResult(c.err), row |-> row, reg |-> reg,
              dev |-> c.dev,
              log |-> w.log \cup c.log \cup PersistFailureLog(c.err)]
        ELSE [err |-> OK, row |-> row,
              reg |-> Upsert(reg, userID, serverID, publicKey, a.ip),
              dev |-> w.dev, log |-> w.log \cup {LogAuthorized}]

\* GET /api/client/config behind authMiddleware.  A request the handler
\* does not refuse is taken through AddUserKey and GetServerByID, whose
\* query succeeds or fails.
getConfigHandler(method, path, authHeader, contentType, body) ==
    LET auth == authMiddleware(authHeader)
        perr == parseJSONBody(method, contentType, body)
        kerr == ValidatePublicKey(body.public_key)
        c0 == <<Call("authMiddleware", auth.status = 0, authHeader)>>
        c1 == Append(Append(c0, Call("getConfigHandler", TRUE, body)),
                     Call("parseJSONBody", perr = Nil, ""))
        c2 == Append(c1, Call("ValidatePublicKey", kerr = Nil, ""))
        c3 == Append(c2, Call("uuid.Parse",
                              body.server_id \in {serverIDStr, OtherServer}, ""))
    IN  /\ Route(method, path) = "getConfigHandler"
        /\ Issued(authHeader)
        /\ users' = users
        /\ IF auth.status # 0
           THEN Respond("getConfigHandler", auth.status, <<auth.message>>, c0)
           ELSE IF perr # Nil
           THEN Respond("getConfigHandler", 400, <<"Invalid request: ", perr>>, c1)
           ELSE IF kerr # Nil
           THEN Respond("getConfigHandler", 400, <<"Invalid public key: ", kerr>>, c2)
           ELSE IF body.server_id \notin {serverIDStr, OtherServer}
           THEN Respond("getConfigHandler", 400, <<"Invalid server ID">>, c3)
           ELSE \E queryOK \in BOOLEAN, configureOK \in BOOLEAN,
                   upsertOK \in BOOLEAN, removeOK \in BOOLEAN,
                   serverOK \in BOOLEAN :
                  LET r == AddUserKey(registry, device, wgClient, auth.user_id,
                                      body.server_id, body.public_key,
                                      queryOK, configureOK, upsertOK, removeOK)
                      found == IF serverOK
                               THEN GetServerByID(servers, body.server_id)
                               ELSE {}
                      c4 == Append(c3, Call("AddUserKey", r.err = OK,
                                            <<auth.user_id, body.server_id,
                                              body.public_key>>))
                      c5 == Append(c4, Call("GetServerByID", found # {}, ""))
                  IN  /\ registry' = r.reg
                      /\ device' = r.dev
                      /\ returned' =
                           IF r.err # OK
                           THEN [op |-> "getConfigHandler",
                                 result |-> <<500, <<"Failed to configure VPN">>>>,
                                 calls |-> c4, log |-> r.log]
                           ELSE IF found = {}
                           THEN [op |-> "getConfigHandler",
                                 result |-> <<404, <<"Server not found">>>>,
                                 calls |-> c5,
                                 log |-> r.log \cup {LogServerNotFound}]
                           ELSE [op |-> "getConfigHandler",
                                 result |-> <<200, WireGuardConfig(r.row,
                                               CHOOSE sv \in found : TRUE)>>,
                                 calls |-> c5, log |-> r.log]
                      /\ UNCHANGED <<wgClient, proc, ncalls, startupVars>>

\* GET /api/servers/locations behind authMiddleware.  The query succeeds
\* or fails.
getServersHandler(method, path, authHeader, queryOK) ==
    LET auth == authMiddleware(authHeader)
        c0 == <<Call("authMiddleware", auth.status = 0, authHeader)>>
        c1 == Append(Append(c0, Call("getServersHandler", TRUE, "")),
                     Call("GetActiveServers", queryOK, ""))
    IN  /\ Route(method, path) = "getServersHandler"
        /\ Issued(authHeader)
        /\ users' = users
        /\ IF auth.status # 0
           THEN Respond("getServersHandler", auth.status, <<auth.message>>, c0)
           ELSE IF ~queryOK
           THEN Respond("getServersHandler", 500, <<"Failed to get servers">>, c1)
           ELSE Respond("getServersHandler", 200, GetActiveServers(servers), c1)

\* GET /api/health
healthHandler(method, path) ==
    /\ Route(method, path) = "healthHandler"
    /\ users' = users
    /\ Respond("healthHandler", 200, <<"healthy">>, <<>>)

\* The router's answer to a request no route matches: 405 when the path
\* is registered for another method, 404 otherwise.
NotFound(method, path) ==
    /\ Route(method, path) = "NotFound"
    /\ users' = users
    /\ IF \E m \in {"GET", "POST"} : Route(m, path) # "NotFound"
       THEN Respond("NotFound", 405, <<"Method Not Allowed">>, <<>>)
       ELSE Respond("NotFound", 404, <<"Not Found">>, <<>>)

\* The requests clients send.
Methods == {"GET", "POST"}
Paths ==
    {"/api/users/register", "/api/users/login", "/api/client/config",
     "/api/servers/locations", "/api/health", "/"}
ContentTypes == {<<"application/json">>, <<"text/plain">>}
Emails == {Email(1), Email(2)}
EmailInputs ==
    Emails \cup {<<>>, <<"a", "a">>, <<"a", "@", "a", ".", "a">>,
                 <<"@", "a", ".", "a", "a">>}
PasswordInputs ==
    {Repeat("U", u) \o Repeat("l", l) \o Repeat("1", d) :
        u \in 0..1, l \in {1, MaxLetters}, d \in 0..1}
        \cup {<<>>, <<"U", "l", "1", "é", "é", "é">>}
AccountBodies ==
    {Body("object", e, pw, "", NoKey) : e \in EmailInputs, pw \in PasswordInputs}
        \cup {Body("empty", <<>>, <<>>, "", NoKey), Body("invalid", <<>>, <<>>, "", NoKey)}
ConfigBodies ==
    {Body("object", <<>>, <<>>, sid, k) :
        sid \in {serverIDStr, OtherServer, "not-a-uuid"}, k \in KeyInputs}
        \cup {Body("empty", <<>>, <<>>, "", NoKey)}
\* A token the service issued, fresh or expired, or one signed with
\* another secret.
Tokens ==
    {[GenerateToken(u, e) EXCEPT !.expired = x] :
        u \in Users, e \in Emails, x \in BOOLEAN}
        \cup {[GenerateToken(1, Email(1)) EXCEPT !.key = "other"]}
AuthHeaders ==
    {<<>>, <<"Bearer ">>}
        \cup {<<scheme, t>> : scheme \in {"Bearer ", "bearer ", "Basic "}, t \in Tokens}

InitAPI ==
    /\ boot = Serving
    /\ keyFile = <<"A", "\n">>
    /\ servers = {ServerRow(serverIDStr, <<"A">>, TRUE),
                  ServerRow(OtherServer, <<"O">>, FALSE)}
    /\ registry = {}
    /\ device = [k \in GoodKeys |-> NoPeer]
    /\ wgClient = TRUE
    /\ proc = [p \in Workers |-> IdleProc]
    /\ returned = NoneReturned
    /\ ncalls = 0
    /\ users = {}

NextAPI ==
    \E method \in Methods, path \in Paths :
        \/ \E ct \in ContentTypes, body \in AccountBodies, existsOK, createOK \in BOOLEAN :
               registerHandler(method, path, ct, body, existsOK, createOK)
        \/ \E ct \in ContentTypes, body \in AccountBodies :
               loginHandler(method, path, ct, body)
        \/ \E h \in AuthHeaders, ct \in ContentTypes, body \in ConfigBodies :
               getConfigHandler(method, path, h, ct, body)
        \/ \E h \in AuthHeaders, queryOK \in BOOLEAN :
               getServersHandler(method, path, h, queryOK)
        \/ healthHandler(method, path)
        \/ NotFound(method, path)

SpecAPI == InitAPI /\ [][NextAPI]_vars

\* Registration and login on a users table that holds the row of a user
\* whose account was deactivated (is_active = false, set in the database:
\* no operation of the service clears the flag).
Deactivated ==
    {[UserRow(2, Email(2), HashPassword(GoodPassword)) EXCEPT !.is_active = FALSE]}

InitLogin ==
    /\ Running
    /\ registry = {}
    /\ device = [k \in GoodKeys |-> NoPeer]
    /\ wgClient = TRUE
    /\ proc = [p \in Workers |-> IdleProc]
    /\ returned = NoneReturned
    /\ ncalls = 0
    /\ users = Deactivated

NextLogin ==
    \/ \E ct \in ContentTypes, body \in AccountBodies, existsOK, createOK \in BOOLEAN :
           registerHandler("POST", "/api/users/register", ct, body, existsOK, createOK)
    \/ \E ct \in ContentTypes, body \in AccountBodies :
           loginHandler("POST", "/api/users/login", ct, body)

SpecLogin == InitLogin /\ [][NextLogin]_vars

\* ---------------------------------------------- concurrent registrations

\* Registration requests that are in progress at once, each on its own
\* worker.  registerHandler issues two statements, the EXISTS query and the
\* INSERT, with no transaction around them, so each is a step of its own.

\* registerHandler, lines 95-116: from parseJSONBody to the answer of
\* EmailExists.
registerCheck(p, contentType, body) ==
    LET perr == parseJSONBody("POST", contentType, body)
        verr == validateRegistration(body)
        c0 == <<Call("registerHandler", TRUE, body)>>
        c1 == Append(c0, Call("parseJSONBody", perr = Nil, ""))
        c2 == Append(c1, Call("validateRegistration", verr = Nil, ""))
        c3 == Append(c2, Call("EmailExists", TRUE, ""))
        answer(status, data, calls) ==
            /\ returned' = [op |-> "registerHandler", result |-> <<status, data>>,
                            calls |-> calls, log |-> {}]
            /\ proc' = proc
    IN  /\ Takes(p)
        /\ ncalls' = ncalls + 1
        /\ IF perr # Nil
           THEN answer(400, <<"Invalid request: ", perr>>, c1)
           ELSE IF verr # Nil
           THEN answer(400, <<verr>>, c2)
           ELSE IF EmailExists(users, body.email)
           THEN answer(409, <<"Email already registered">>, c3)
           ELSE /\ proc' = [proc EXCEPT ![p] =
                              [IdleProc EXCEPT !.pc = "create",
                                  !.op = "registerHandler", !.calls = c3]]
                /\ returned' = returned
        /\ UNCHANGED <<registry, device, wgClient, startupVars, users>>

\* registerHandler, lines 118-152: HashPassword, CreateUser and the
\* response.
registerCreate(p) ==
    LET body == proc[p].calls[1].note
        id == CHOOSE u \in FreeIds : \A v \in FreeIds : u <= v
        r == CreateUser(users, id, body.email, HashPassword(body.password))
        user == UserRow(id, body.email, HashPassword(body.password))
        c4 == Append(proc[p].calls, Call("CreateUser", r.err = Nil, ""))
    IN  /\ proc[p].pc = "create"
        /\ users' = r.tbl
        /\ proc' = [proc EXCEPT ![p] = IdleProc]
        /\ returned' =
             [op |-> "registerHandler",
              result |-> IF r.err # Nil
                         THEN <<500, <<"Failed to create user">>>>
                         ELSE <<200, [user |-> ToUserResponse(user),
                                      token |-> GenerateToken(user.id, user.email)]>>,
              calls |-> c4, log |-> {}]
        /\ UNCHANGED <<registry, device, wgClient, ncalls, startupVars>>

RegistrationBodies ==
    {Body("object", e, pw, "", NoKey) : e \in Emails, pw \in {GoodPassword, <<>>}}

NextRegister ==
    \/ \E p \in Workers, body \in RegistrationBodies :
          registerCheck(p, <<"application/json">>, body)
    \/ \E p \in Workers : registerCreate(p)

SpecRegister == InitAPI /\ [][NextRegister]_vars

\* ------------------------------------------------------------ shutdown

\* The requests in progress: the connections the server has open.
OpenConns == Cardinality({p \in Workers : proc[p].pc # "idle"})

\* Mutant of Drained: Shutdown returns without waiting for the open
\* connections.
DrainedAtOnce(open) == TRUE

\* Server.Shutdown, fasthttp's ShutdownWithContext: it returns nil once
\* no connection is open.
Drained(open) == open = 0

\* main, lines 92-96: the termination signal arrives; the listeners are
\* closed, so no new request is accepted.
Signal ==
    /\ boot.pc = "serving"
    /\ boot' = [boot EXCEPT !.pc = "shutdown", !.open = OpenConns,
                            !.log = @ \cup {LogShuttingDown}]
    /\ UNCHANGED <<keyFile, servers, serviceVars, users>>

\* main, lines 103-107: Shutdown returned nil; main returns, the deferred
\* db.Close runs and the process exits.
ShutdownReturned ==
    /\ boot.pc = "shutdown"
    /\ Drained(OpenConns)
    /\ boot' = [boot EXCEPT !.pc = "exited", !.log = @ \cup {LogExited}]
    /\ UNCHANGED <<keyFile, servers, serviceVars, users>>

\* main, lines 99-107: the 30 seconds of the shutdown context ran out
\* with a connection still open; Shutdown returns the context's error,
\* main logs it and returns, the deferred db.Close runs and the process
\* exits with the request's goroutine where it was.
ShutdownTimedOut ==
    /\ boot.pc = "shutdown"
    /\ OpenConns > 0
    /\ boot' = [boot EXCEPT !.pc = "exited",
                            !.log = @ \cup {LogForced, LogExited}]
    /\ UNCHANGED <<keyFile, servers, serviceVars, users>>

\* One worker and one (user, server) pair, as in NextOnePair, in a process
\* that is told to stop: requests start only while the server listens,
\* and their steps run only while the process lives.
NextShutdown ==
    \/ boot.pc = "serving" /\ \E k \in KeyInputs : BeginAdd(1, 1, "s1", k)
    \/ boot.pc = "serving" /\ BeginRemove(1, 1, "s1")
    \/ boot.pc # "exited" /\ \E queryOK \in BOOLEAN : Allocate(1, queryOK)
    \/ boot.pc # "exited" /\ \E configureOK \in BOOLEAN : Authorize(1, configureOK)
    \/ boot.pc # "exited" /\ Persist(1)
    \/ boot.pc # "exited" /\ PersistError(1)
    \/ boot.pc # "exited" /\ \E configureOK \in BOOLEAN : Compensate(1, configureOK)
    \/ boot.pc # "exited" /\ Lookup(1)
    \/ boot.pc # "exited" /\ \E queryOK \in BOOLEAN : LookupError(1, queryOK)
    \/ boot.pc # "exited" /\ \E configureOK \in BOOLEAN : Revoke(1, configureOK)
    \/ boot.pc # "exited" /\ DeactivateRow(1)
    \/ boot.pc # "exited" /\ DeactivateError(1)
    \/ Signal
    \/ ShutdownReturned
    \/ ShutdownTimedOut

SpecShutdown == Init /\ [][NextShutdown]_vars

\* ---------------------------------------------------------- properties

Quiescent == \A p \in Workers : proc[p].pc = "idle"
Last(seq) == seq[Len(seq)]
Has(calls, fn, ok) == \E i \in DOMAIN calls : calls[i].fn = fn /\ calls[i].ok = ok
Made(calls, fn) == \E i \in DOMAIN calls : calls[i].fn = fn
\* Worker p took a step of its call.
Stepped(p) == proc'[p] # proc[p]
\* The call history of worker p after its step, whether it returned or not.
CallsAfter(p) == IF proc'[p].pc = "idle" THEN returned'.calls ELSE proc'[p].calls
\* A key string that does not base64-decode to exactly 32 bytes.
Malformed(k) == ~(k.b64 /\ k.len = 32)

\* C1: in every reachable state the registry holds at most one row, hence
\* at most one active row, per (user, server) pair.
C1_OneRowPerPair ==
    \A r1 \in registry, r2 \in registry :
        (r1.user_id = r2.user_id /\ r1.server_id = r2.server_id) => r1 = r2

\* A re-authorization has overwritten the row of its pair, which held
\* another key or was inactive.
C1_Witness ==
    /\ returned.op = "AddUserKey"
    /\ returned.result = OK
    /\ Last(returned.calls).note = "replaced"

\* C2: no two active rows of the same server carry the same address.
C2_UniqueActiveAddress ==
    \A r1 \in registry, r2 \in registry :
        (r1 # r2 /\ r1.is_active /\ r2.is_active /\ r1.server_id = r2.server_id)
            => r1.allowed_ips # r2.allowed_ips

\* C3: when no call is in progress and no database or device call has
\* failed, every peer on the device is the key of some active row.
C3_NoOrphanPeer ==
    Quiescent =>
        \A k \in ListAuthorizedPeers :
            \E r \in registry : r.is_active /\ r.public_key = k

\* C4: AddUserKey with a malformed key returns the validation error at
\* once: it has made no database and no device call, and the registry and
\* the device are unchanged.
C4_MalformedKeyNoSideEffect ==
    [][\A p \in Workers, u \in Users, s \in Servers, k \in KeyInputs :
          (Malformed(k) /\ BeginAdd(p, u, s, k)) =>
              /\ proc'[p].pc = "idle"
              /\ returned'.op = "AddUserKey"
              /\ returned'.result[1] = ErrInvalidKey
              /\ returned'.calls = <<>>
              /\ registry' = registry
              /\ device' = device]_vars

C4_Witness ==
    /\ returned.op = "AddUserKey"
    /\ returned.result = <<ErrInvalidKey, "invalid key length">>
    /\ returned.calls = <<>>

\* C5: when authorizeUserInWireGuard returns an error, AddUserKey returns
\* the authorization error in that step, the registry is unchanged by it
\* and the call has made no upsert.
C5_DeviceFailureWritesNothing ==
    [][\A p \in Workers :
          (proc[p].pc = "authorize" /\ Stepped(p) /\ ~Last(CallsAfter(p)).ok) =>
              /\ proc'[p].pc = "idle"
              /\ returned'.result[1] = ErrAuthorize
              /\ ~Made(returned'.calls, "upsert")
              /\ registry' = registry]_vars

C5_Witness ==
    /\ returned.op = "AddUserKey"
    /\ returned.result = <<ErrAuthorize, ErrConfigure>>
    /\ Has(returned.calls, "authorizeUserInWireGuard", FALSE)

\* C6: when the upsert fails the call does not return before it has
\* called removeUserFromWireGuard for the key it authorized; that call
\* touches no other peer, and when it succeeds the key is not among the
\* device's peers.
C6_CompensatingRevoke ==
    [][\A p \in Workers :
          /\ (proc[p].pc = "persist" /\ Stepped(p) /\ ~Last(CallsAfter(p)).ok)
                => proc'[p].pc = "compensate"
          /\ (proc[p].pc = "compensate" /\ Stepped(p)) =>
                /\ proc'[p].pc = "idle"
                /\ Has(returned'.calls, "authorizeUserInWireGuard", TRUE)
                /\ Last(returned'.calls).fn = "removeUserFromWireGuard"
                /\ \A k \in GoodKeys \ {proc[p].key} : device'[k] = device[k]
                /\ Last(returned'.calls).ok
                      => proc[p].key \notin ListAuthorizedPeers']_vars

\* The only call made so far failed in its upsert, its compensating revoke
\* succeeded, and the device holds no peer.
C6_Witness ==
    /\ ncalls = 1
    /\ Has(returned.calls, "upsert", FALSE)
    /\ returned.result[1] = ErrPersist
    /\ Last(returned.calls) = Call("removeUserFromWireGuard", TRUE, "")
    /\ ListAuthorizedPeers = {}

\* The log lines of the source that record a failed revoke.
RevokeFailureLines == {LogRemoveFailed}

\* C7: when the upsert failed and the compensating revoke failed too, the
\* call has logged a line that records the failed revoke.
C7_CompensationFailureLogged ==
    (/\ returned.op = "AddUserKey"
     /\ Has(returned.calls, "upsert", FALSE)
     /\ Has(returned.calls, "removeUserFromWireGuard", FALSE))
        => returned.log \cap RevokeFailureLines # {}

\* C8: an AddUserKey whose upsert failed returns the persistence error,
\* whether its compensating revoke succeeded or failed.
C8_PrimaryErrorReturned ==
    (returned.op = "AddUserKey" /\ Has(returned.calls, "upsert", FALSE))
        => returned.result = <<ErrPersist, "database error">>

\* The compensating revoke failed and the persistence error was returned.
C8_Witness ==
    /\ returned.op = "AddUserKey"
    /\ Has(returned.calls, "upsert", FALSE)
    /\ Has(returned.calls, "removeUserFromWireGuard", FALSE)
    /\ returned.result[1] = ErrPersist

\* C9: a successful AddUserKey(u, s, k) on a pair whose row is active with
\* the same key k leaves the number of rows unchanged and exactly one row
\* for (u, s), active, with key k.
C9_SameKeyTwice ==
    [][\A p \in Workers :
          (/\ proc[p].pc = "persist"
           /\ proc'[p].pc = "idle"
           /\ \E r \in ActiveRows(registry, proc[p].user, proc[p].server) :
                 r.public_key = proc[p].key)
          => /\ Cardinality(registry') = Cardinality(registry)
             /\ \E r \in registry' :
                   /\ Conflicting(registry', proc[p].user, proc[p].server) = {r}
                   /\ r.is_active
                   /\ r.public_key = proc[p].key]_vars

\* Two calls were made, the second re-authorized the active row of the
\* first with the same key, and the one row now carries the second address.
C9_Witness ==
    /\ ncalls = 2
    /\ Quiescent
    /\ returned.result = OK
    /\ Last(returned.calls).note = "replaced active row with the same key"
    /\ Cardinality(registry) = 1
    /\ \E r \in registry : r.is_active /\ r.allowed_ips = <<10, 0, 0, 3, 32>>

\* C10: on a server with n active rows a successful count yields
\* 10.0.0.(n+2)/32 when n <= 252, a host between 2 and 254, and the
\* pool-exhausted error when n >= 253.
C10_AllocationByCount ==
    LET n == CountActive(registry, "s1")
    IN  /\ \A p \in Workers :
              proc[p].pc = "authorize" =>
                  /\ n <= 252
                  /\ proc[p].ip = <<10, 0, 0, n + 2, 32>>
                  /\ 2 <= proc[p].ip[4] /\ proc[p].ip[4] <= 254
        /\ (Made(returned.calls, "allocateUserIP")
              /\ returned.result # <<ErrAllocate, ErrCount>>)
             => (n >= 253 /\ returned.result = <<ErrAllocate, ErrNoIP>>)

\* The server has 253 active rows and the allocation reported exhaustion.
C10_Witness ==
    /\ CountActive(registry, "s1") = 253
    /\ returned.result = <<ErrAllocate, ErrNoIP>>

\* C11: on a server with 253 or more active rows, the allocation step of
\* AddUserKey ends the call with the allocation error, which is the
\* pool-exhausted error whenever the count query succeeded; the call has
\* made no device call and the registry and the device are unchanged,
\* whether or not the caller holds one of the active rows.
C11_PoolExhaustedBeforeDevice ==
    [][\A p \in Workers :
          (/\ proc[p].pc = "allocate"
           /\ Stepped(p)
           /\ Cardinality({r \in registry : r.server_id = proc[p].server
                                              /\ r.is_active}) >= 253)
          => /\ proc'[p].pc = "idle"
             /\ returned'.op = "AddUserKey"
             /\ returned'.result[1] = ErrAllocate
             /\ Last(returned'.calls).ok = FALSE
             /\ returned'.result[2] # ErrCount
                   => returned'.result = <<ErrAllocate, ErrNoIP>>
             /\ ~Made(returned'.calls, "authorizeUserInWireGuard")
             /\ registry' = registry
             /\ device' = device]_vars

\* The server holds 253 active rows, every user who may call holds one of
\* them, and the one call made so far was refused for exhaustion.
C11_Witness ==
    /\ Cardinality({r \in registry : r.is_active}) = 253
    /\ \A u \in Users : \E r \in registry : r.user_id = u /\ r.is_active
    /\ ncalls = 1
    /\ returned.op = "AddUserKey"
    /\ returned.result = <<ErrAllocate, ErrNoIP>>
    /\ returned.calls = <<Call("allocateUserIP", FALSE, "")>>

\* C12: RemoveUserKey for a pair with no active row (no row, or an
\* inactive one) returns the not-found error in its lookup step, has made
\* no device call, and leaves the registry and the device unchanged.
C12_DeauthorizeNotFound ==
    [][\A p \in Workers :
          (/\ proc[p].pc = "lookup"
           /\ Stepped(p)
           /\ ~\E r \in registry : /\ r.user_id = proc[p].user
                                    /\ r.server_id = proc[p].server
                                    /\ r.is_active)
          => /\ proc'[p].pc = "idle"
             /\ returned'.op = "RemoveUserKey"
             /\ returned'.result[1] = ErrNotFound
             /\ ~Made(returned'.calls, "removeUserFromWireGuard")
             /\ registry' = registry
             /\ device' = device]_vars

\* After an authorization and its deauthorization, a third call found no
\* active row: the only row is inactive.
C12_Witness ==
    /\ ncalls = 3
    /\ Quiescent
    /\ returned.op = "RemoveUserKey"
    /\ returned.result = <<ErrNotFound, ErrNotFound>>
    /\ returned.calls = <<Call("GetUserKey", FALSE, "no rows")>>
    /\ Cardinality(registry) = 1
    /\ \A r \in registry : ~r.is_active

\* C13: in RemoveUserKey the revoke step comes before the UPDATE and goes
\* on to it whatever the device answered, leaving the registry as it was;
\* when the UPDATE succeeds the call returns success with every row of the
\* pair inactive, the revoke having been its previous call.
C13_RevokeIsBestEffort ==
    [][\A p \in Workers :
          /\ (proc[p].pc = "revoke" /\ Stepped(p)) =>
                /\ proc'[p].pc = "deactivate"
                /\ Last(proc'[p].calls).fn = "removeUserFromWireGuard"
                /\ ~Made(proc'[p].calls, "deactivate")
                /\ registry' = registry
          /\ (proc[p].pc = "deactivate" /\ Stepped(p) /\ Last(CallsAfter(p)).ok) =>
                /\ proc'[p].pc = "idle"
                /\ returned'.result = OK
                /\ Last(proc[p].calls).fn = "removeUserFromWireGuard"
                /\ \A r \in registry' :
                      (r.user_id = proc[p].user /\ r.server_id = proc[p].server)
                          => ~r.is_active]_vars

\* A RemoveUserKey whose device revoke failed returned success.
C13_Witness ==
    /\ returned.op = "RemoveUserKey"
    /\ Has(returned.calls, "removeUserFromWireGuard", FALSE)
    /\ returned.result = OK
    /\ \E r \in registry : ~r.is_active

\* The last call was a RemoveUserKey whose revoke succeeded and whose
\* UPDATE failed.
Interrupted ==
    /\ returned.op = "RemoveUserKey"
    /\ Has(returned.calls, "removeUserFromWireGuard", TRUE)
    /\ Has(returned.calls, "deactivate", FALSE)

\* C14: a RemoveUserKey whose UPDATE fails leaves the registry as it was,
\* so the row is still active; the RemoveUserKey that follows it for the
\* pair finds the row unless its query fails, its revoke of the absent peer
\* leaves the device unchanged and goes on to the UPDATE, and when the
\* UPDATE succeeds it returns success with the row inactive and the key
\* absent from the device.
C14_RetryAfterInterruption ==
    [][/\ (proc[1].pc = "deactivate" /\ Stepped(1) /\ ~Last(CallsAfter(1)).ok) =>
            /\ registry' = registry
            /\ \E r \in registry' : r.is_active /\ r.public_key = proc[1].key
       /\ (Interrupted /\ proc[1].op = "RemoveUserKey" /\ Stepped(1)) =>
            /\ proc[1].pc = "lookup" =>
                  \/ proc'[1].pc = "revoke"
                  \/ Last(returned'.calls).note = "query failed"
            /\ proc[1].pc = "revoke" =>
                  /\ proc[1].key \notin ListAuthorizedPeers
                  /\ device' = device
                  /\ proc'[1].pc = "deactivate"
            /\ (proc[1].pc = "deactivate" /\ Last(CallsAfter(1)).ok) =>
                  /\ returned'.result = OK
                  /\ \A r \in registry' : ~r.is_active
                  /\ proc[1].key \notin ListAuthorizedPeers']_vars

\* The retry has revoked the absent peer and is about to mark the row
\* inactive.
C14_Witness ==
    /\ Interrupted
    /\ proc[1].op = "RemoveUserKey"
    /\ proc[1].pc = "deactivate"
    /\ Last(proc[1].calls).fn = "removeUserFromWireGuard"
    /\ proc[1].key \notin ListAuthorizedPeers
    /\ \E r \in registry : r.is_active /\ r.public_key = proc[1].key

\* C15: when no call is in progress, after any interleaving of AddUserKey
\* calls for one pair that all succeeded, the pair has one row and the
\* device holds that row's key with that row's address, as after running
\* the calls one after the other.
C15_SamePairSerialized ==
    Quiescent =>
        /\ Cardinality(registry) <= 1
        /\ \A r \in registry :
              /\ r.public_key \in ListAuthorizedPeers
              /\ device[r.public_key].allowedIPs = {r.allowed_ips}

\* What holds of synchronizeKeys in every state: at most 10 attempts, a
\* wait of 5 seconds after each failed attempt and no other wait, a return
\* right after the first success, the fatal end only after 10 failures.
SyncLoopBounded ==
    /\ boot.attempts <= 10
    /\ boot.slept = 5 * boot.i
    /\ boot.pc = "loop" => boot.attempts = boot.i
    /\ boot.pc = "sleep" => (boot.attempts = boot.i + 1 /\ ~boot.synced)
    /\ boot.pc \in {"start", "serving"} =>
          (boot.synced /\ boot.attempts = boot.i + 1)
    /\ boot.pc = "fatal" =>
          (boot.attempts = 10 /\ boot.slept = 50 /\ ~boot.synced)

\* C16: startup key synchronization makes at most 10 attempts, waits 5
\* seconds after each failed one, returns as soon as one succeeds and ends
\* in the fatal error after 10 failures; and it terminates: a process in
\* the loop reaches the return or the fatal error.
C16_SyncTerminates ==
    /\ []SyncLoopBounded
    /\ (boot.pc = "loop") ~> (boot.pc \in {"start", "fatal"})

\* All 10 attempts failed and the process ended with the fatal error.
C16_Witness ==
    /\ boot.pc = "fatal"
    /\ boot.attempts = 10
    /\ boot.slept = 50

\* C17: a request is served, and the API server is started, only in a
\* process whose key synchronization succeeded.
C17_ServeOnlyAfterSync ==
    /\ boot.served => boot.synced
    /\ boot.pc = "serving" => boot.synced

\* A request was served after failed attempts and a successful one.
C17_Witness ==
    /\ boot.served
    /\ boot.synced
    /\ boot.attempts > 1

\* C18: once key synchronization has succeeded, the servers row of the
\* managed server stores the trimmed content of the key file.
C18_StoredKeyMatchesFile ==
    boot.synced =>
        \E r \in servers : r.id = serverIDStr /\ r.public_key = TrimSpace(keyFile)

\* C19: an attempt of SyncServerPublicKey changes the servers table only
\* when the managed server's row stores no key or another key than the
\* file's, and then only that row; when the row stores the file's key the
\* attempt writes nothing and succeeds; every write counted changed the
\* table; and with the key file unchanged the table is written at most
\* once, however often the synchronization runs.
C19_WriteOnlyOnMismatch ==
    /\ [][(boot.pc = "loop" /\ boot'.attempts = boot.attempts + 1) =>
            LET key == TrimLeft(TrimRight(keyFile))
                own == {r \in servers : r.id = serverIDStr}
            IN  /\ servers' # servers =>
                      \E r \in own : r.public_key = <<"NULL">> \/ r.public_key # key
                /\ {r \in servers' : r.id # serverIDStr}
                      = {r \in servers : r.id # serverIDStr}
                /\ (own # {} /\ \A r \in own : r.public_key = key) =>
                      /\ servers' = servers
                      /\ boot'.writes = boot.writes
                      /\ boot'.synced \/ boot'.pc = "sleep"
                /\ boot'.writes = boot.writes + (IF servers' # servers THEN 1 ELSE 0)
          ]_vars
    /\ [](boot.writes <= 1)

\* The process was restarted and its synchronization succeeded again
\* without a write: the one write was made by the first run.
C19_Witness ==
    /\ boot.restarts = 1
    /\ boot.synced
    /\ boot.writes = 1
    /\ boot.log = {LogUpToDate}

\* The value of the line of a document that starts with name.
Field(doc, name) ==
    LET i == CHOOSE j \in DOMAIN doc : doc[j] # <<>> /\ doc[j][1] = name
    IN  SubSeq(doc[i], 3, Len(doc[i]))

\* C20: for a user with an active row on an active server, GenerateConfig
\* succeeds and the document carries the row's address as Address, the
\* server's stored key as PublicKey, the server's endpoint and port joined
\* by a colon as Endpoint, and the fixed DNS, AllowedIPs and
\* PersistentKeepalive values.
C20_RenderedConfig ==
    [][\A u \in Users :
          (/\ CallGenerateConfig(1, u, "s1", "[CLIENT_PRIVATE_KEY]")
           /\ \E r \in registry : r.user_id = u /\ r.server_id = "s1" /\ r.is_active
           /\ \E sv \in servers : sv.id = "s1" /\ sv.is_active
                                  /\ sv.public_key # <<"NULL">>)
          => LET doc == returned'.result
                 r == CHOOSE x \in registry :
                         x.user_id = u /\ x.server_id = "s1" /\ x.is_active
                 sv == CHOOSE x \in servers : x.id = "s1"
             IN  /\ Last(returned'.calls).ok
                 /\ Len(doc) = 10
                 /\ Field(doc, "Address") = <<r.allowed_ips>>
                 /\ Field(doc, "PublicKey") = <<sv.public_key>>
                 /\ Field(doc, "Endpoint") = <<sv.endpoint, ":", sv.port>>
                 /\ Field(doc, "DNS") = <<"1.1.1.1, 8.8.8.8">>
                 /\ Field(doc, "AllowedIPs") = <<"0.0.0.0/0, ::/0">>
                 /\ Field(doc, "PersistentKeepalive") = <<"25">>]_vars

\* A configuration was rendered for a user whose row holds the second
\* address, on a server whose stored key is "B".
C20_Witness ==
    /\ returned.op = "GenerateConfig"
    /\ Last(returned.calls).ok
    /\ returned.result[3] = <<"Address", "=", <<10, 0, 0, 3, 32>>>>
    /\ returned.result[7] = <<"PublicKey", "=", <<"B">>>>
    /\ returned.result[8] = <<"Endpoint", "=", "35.78.89.198", ":", 51820>>

\* C21: a call of GenerateConfig leaves the registry, the Server Directory
\* and the device as they were; when the server has no row or an inactive
\* row it returns the server-not-found error, and when the server is
\* active and the user has no active row on it, the user-key-not-found
\* error.
C21_GenerateConfigReadOnly ==
    [][\A u \in Users :
          CallGenerateConfig(1, u, "s1", "[CLIENT_PRIVATE_KEY]")
          => /\ registry' = registry
             /\ servers' = servers
             /\ device' = device
             /\ (~\E sv \in servers : sv.id = "s1" /\ sv.is_active)
                   => returned'.result = <<"server not found">>
             /\ ( /\ \E sv \in servers : sv.id = "s1" /\ sv.is_active
                                           /\ sv.public_key # <<"NULL">>
                  /\ ~\E r \in registry : r.user_id = u /\ r.server_id = "s1"
                                            /\ r.is_active )
                   => returned'.result = <<"user key not found">>]_vars

\* GenerateConfig was refused on a server whose row is there with a key
\* but inactive, for a user holding an active row on it.
C21_Witness ==
    /\ returned.op = "GenerateConfig"
    /\ returned.result = <<"server not found">>
    /\ \E sv \in servers : sv.id = "s1" /\ ~sv.is_active /\ sv.public_key = <<"A">>
    /\ \E r \in registry : r.server_id = "s1" /\ r.is_active

C22_GetConfigEndToEnd ==
    [][\A h \in AuthHeaders, ct \in ContentTypes, body \in ConfigBodies :
          ( /\ getConfigHandler("GET", "/api/client/config", h, ct, body)
            /\ Len(h) = 2 /\ h[1] = "Bearer "
            /\ h[2].key = "secret" /\ ~h[2].expired
            /\ \E r \in users : r.id = h[2].user_id /\ r.email = h[2].email
            /\ ct = <<"application/json">>
            /\ body.json = "object"
            /\ body.server_id = "s1"
            /\ \E sv \in servers : sv.id = "s1" /\ sv.is_active
            /\ body.public_key.b64 /\ body.public_key.len = 32 )
          => /\ returned'.result[1] = 200
             /\ returned'.result[2].Peer.Endpoint
                  = <<"35.78.89.198", ":", 51820>>
             /\ \E x \in 2..254 :
                   returned'.result[2].Interface.Address = <<10, 0, 0, x, 32>>]_vars

\* C23: a request to get-config or to list-server-locations whose
\* Authorization header is not "Bearer " followed by a token that is
\* signed with the service's secret and has not expired is answered 401,
\* its handler is not invoked, and the registry, the device and the
\* workers are as before; a request with such a header reaches its
\* handler.
C23_AuthenticatedOnly ==
    /\ [](returned.op \in {"getConfigHandler", "getServersHandler"}
          => LET h == returned.calls[1].note
                 bearer == /\ Len(h) = 2 /\ h[1] = "Bearer "
                           /\ h[2].key = "secret" /\ ~h[2].expired
                 invoked == Made(returned.calls, returned.op)
             IN  /\ ~bearer => returned.result[1] = 401 /\ ~invoked
                 /\ bearer => invoked)
    /\ [][LET h == returned'.calls[1].note
              bearer == /\ Len(h) = 2 /\ h[1] = "Bearer "
                        /\ h[2].key = "secret" /\ ~h[2].expired
          IN  (returned'.op \in {"getConfigHandler", "getServersHandler"} /\ ~bearer)
              => /\ registry' = registry
                 /\ device' = device
                 /\ proc' = proc]_vars

\* A registered user's request to get-config was answered 401 "Invalid
\* token": the token was expired or signed with another secret.
C23_Witness ==
    /\ returned.op = "getConfigHandler"
    /\ returned.result = <<401, <<"Invalid token">>>>
    /\ users # {}

\* C26: a registration request is accepted, its handler going on to the
\* user lookup, exactly when the email is non-empty and well-formed and
\* the password has at least 8 characters with an uppercase letter, a
\* lowercase letter and a digit among them; every other request is
\* answered 400 with no lookup and no creation of a user.
C26_RegistrationValidated ==
    [][\A body \in AccountBodies, existsOK, createOK \in BOOLEAN :
          ( /\ registerHandler("POST", "/api/users/register",
                               <<"application/json">>, body, existsOK, createOK)
            /\ body.json = "object" )
          => LET valid == /\ body.email # <<>>
                          /\ isValidEmail(body.email)
                          /\ Len(body.password) >= 8
                          /\ \E i \in DOMAIN body.password : body.password[i] = "U"
                          /\ \E i \in DOMAIN body.password : body.password[i] = "l"
                          /\ \E i \in DOMAIN body.password : body.password[i] = "1"
                 lookedUp == Made(returned'.calls, "EmailExists")
             IN  /\ lookedUp <=> valid
                 /\ ~valid => /\ returned'.result[1] = 400
                              /\ ~Made(returned'.calls, "CreateUser")
                              /\ users' = users]_vars

\* C27 as claimed: the process does not exit, and the pool is not closed,
\* while an AddUserKey call that was in progress when the signal arrived
\* has not returned.
C27_ExitAfterInFlight ==
    boot.pc = "exited" => proc[1].op # "AddUserKey"

\* C27, amended: the process exits with an AddUserKey call still in
\* progress only when the shutdown context's 30 seconds ran out, which it
\* logs as a forced shutdown; until then a call that was in progress when
\* the signal arrived goes on, its compensating revoke included.
C27_ExitAfterInFlightOrForced ==
    (boot.pc = "exited" /\ proc[1].op = "AddUserKey")
    => "Server forced to shutdown" \in boot.log

\* The signal arrived during an AddUserKey call whose upsert then failed;
\* the call made its compensating revoke and returned, and the process
\* exited without a forced shutdown.
C27_Witness ==
    /\ boot.pc = "exited"
    /\ boot.open = 1
    /\ "Server forced to shutdown" \notin boot.log
    /\ returned.op = "AddUserKey"
    /\ Has(returned.calls, "upsert", FALSE)
    /\ Made(returned.calls, "removeUserFromWireGuard")

\* C28: when an AddUserKey call returns success, the device holds the
\* call's key with exactly the address the call allocated and a keepalive
\* of 25 seconds, and the one row of the call's pair holds that key and
\* that address and is active.
C28_AuthorizedPeer ==
    [][\A p \in Workers :
          (proc[p].pc = "persist" /\ proc'[p].pc = "idle" /\ returned'.result = <<>>)
          => /\ device'[proc[p].key] =
                    [present |-> TRUE, allowedIPs |-> {proc[p].ip}, keepalive |-> 25]
             /\ {r \in registry' : r.user_id = proc[p].user
                                    /\ r.server_id = proc[p].server}
                    = {[user_id |-> proc[p].user, server_id |-> proc[p].server,
                        public_key |-> proc[p].key, allowed_ips |-> proc[p].ip,
                        is_active |-> TRUE]}]_vars

\* C29: when no call is in progress, after AddUserKey and RemoveUserKey
\* calls that all succeeded, the key of every active row is a peer of the
\* device and the row's address is an allowed address of that peer.
C29_ActiveRowsAreLive ==
    Quiescent =>
        \A r \in registry :
            r.is_active => /\ r.public_key \in ListAuthorizedPeers
                           /\ r.allowed_ips \in device[r.public_key].allowedIPs

\* C30: when the pair holds an active row whose key is live on the device
\* and the next call, an AddUserKey for the pair, returns an error without
\* a failed compensating revoke, the registry and the device are as they
\* were before the call.
C30_FailedAuthorizeRestores ==
    ( /\ ncalls = 1
      /\ Quiescent
      /\ returned.op = "AddUserKey"
      /\ returned.result # <<>>
      /\ ~Has(returned.calls, "removeUserFromWireGuard", FALSE) )
    => /\ registry = AuthorizedRegistry
       /\ device = AuthorizedDevice

\* C31: a step of a call for one server leaves every row of another server
\* in the registry as it was, and leaves the device entry (presence and
\* allowed address) of every active row of another server as it was; and
\* in every reachable state no two peers of the device hold the same
\* allowed address.
C31_ServersIndependent ==
    /\ [](\A k1 \in ListAuthorizedPeers, k2 \in ListAuthorizedPeers :
            k1 # k2 => device[k1].allowedIPs \cap device[k2].allowedIPs = {})
    /\ [][\A p \in Workers :
            (Stepped(p) /\ proc[p].pc # "idle") =>
                /\ {r \in registry' : r.server_id # proc[p].server}
                     = {r \in registry : r.server_id # proc[p].server}
                /\ \A r \in registry :
                      (r.server_id # proc[p].server /\ r.is_active)
                          => device'[r.public_key] = device[r.public_key]]_vars

\* C32: when the upsert of AddUserKey succeeds for a pair whose row exists
\* and is inactive, the registry has as many rows after it as before (the
\* row is updated, none is inserted), and the active rows of the pair are
\* exactly one row, with the key and the address of this call.
C32_ReactivatesRow ==
    [][\A p \in Workers :
          ( /\ proc[p].pc = "persist"
            /\ proc'[p].pc = "idle"
            /\ Conflicting(registry, proc[p].user, proc[p].server) # {}
            /\ \A r \in Conflicting(registry, proc[p].user, proc[p].server) :
                  ~r.is_active )
          => /\ Cardinality(registry') = Cardinality(registry)
             /\ ActiveRows(registry', proc[p].user, proc[p].server)
                  = {Row(proc[p].user, proc[p].server, proc[p].key,
                         proc[p].ip, TRUE)}]_vars

\* An AddUserKey has returned success after re-activating the inactive row
\* of its pair, and the row now carries another key than the first and
\* another address than the first.
C32_Witness ==
    /\ returned.op = "AddUserKey"
    /\ returned.result = OK
    /\ Last(returned.calls).note = "reactivated"
    /\ \E r \in registry :
          r.is_active /\ r.public_key # FirstKey
              /\ r.allowed_ips # Sprintf(FirstHost)

\* C33: the host number AddUserKey is handed for a server is never below
\* the host number of an address handed out for that server before (the
\* rows of the server, active or not, carry such addresses), and it is
\* never the address of a deactivated row.
C33_HostNeverDecreases ==
    [][\A p \in Workers :
          (proc[p].pc = "allocate" /\ proc'[p].pc = "authorize") =>
              \A r \in registry :
                  r.server_id = proc[p].server =>
                      /\ proc'[p].ip[4] >= r.allowed_ips[4]
                      /\ ~r.is_active => proc'[p].ip # r.allowed_ips]_vars

C35_OneUserPerEmail ==
    /\ [](\A r1 \in users, r2 \in users : r1.email = r2.email => r1 = r2)
    /\ [][( /\ returned' # returned
            /\ returned'.op = "registerHandler"
            /\ Has(returned'.calls, "validateRegistration", TRUE)
            /\ EmailExists(users, returned'.calls[1].note.email) )
          => /\ returned'.result[1] = 409
             /\ users' = users]_vars

\* C36: a login request that passes parsing and validation and whose
\* email has no active row, or whose password is not the one of the
\* email's active row, is answered 401 "Invalid credentials" and nothing
\* else: the response is the same in both cases and carries no token.
C36_LoginDoesNotReveal ==
    ( /\ returned.op = "loginHandler"
      /\ Has(returned.calls, "parseJSONBody", TRUE)
      /\ validateLogin(returned.calls[1].note) = Nil
      /\ \A r \in users :
            (r.email = returned.calls[1].note.email /\ r.is_active)
                => r.password_hash # HashPassword(returned.calls[1].note.password) )
    => returned.result = <<401, <<"Invalid credentials">>>>

\* A login with a wrong password for a registered email has been answered
\* 401 while the table also holds a deactivated account.
C36_Witness ==
    /\ returned.op = "loginHandler"
    /\ returned.result = <<401, <<"Invalid credentials">>>>
    /\ Has(returned.calls, "GetUserByEmail", TRUE)
    /\ Has(returned.calls, "VerifyPassword", FALSE)
    /\ \E r \in users : ~r.is_active

\* C37: an attempt of the startup loop made while the key file is missing
\* or holds nothing but white space writes nothing to the servers table,
\* is not a success and is followed by the sleep before the next attempt;
\* and no row of the servers table ever stores the empty key.
C37_EmptyKeyNeverStored ==
    /\ [](\A r \in servers : r.public_key # <<>>)
    /\ [][( /\ boot.pc = "loop"
            /\ boot'.attempts = boot.attempts + 1
            /\ (keyFile = NoFile \/ TrimSpace(keyFile) = <<>>) )
          => /\ servers' = servers
             /\ boot'.writes = boot.writes
             /\ ~boot'.synced
             /\ boot'.pc = "sleep"]_vars

\* The loop sleeps after an attempt on a key file that holds only white
\* space; the directory has not been written.
C37_Witness ==
    /\ boot.pc = "sleep"
    /\ boot.attempts > 0
    /\ keyFile = <<" ", "\n">>
    /\ boot.writes = 0

\* C38: when InitializeDefaultServers has returned nil in this process,
\* then if it found a server in the directory it has created none, and if
\* it found the directory empty the directory now holds the three default
\* servers, each with a key pair generated in this call, each with port
\* 51820.
C38_BootstrapOnlyWhenEmpty ==
    /\ LogSkipped \in boot.log => boot.writes = 0
    /\ LogInitialized \in boot.log =>
          \A i \in DOMAIN defaultServers :
              \E r \in servers, n \in 1..Len(defaultServers) :
                  /\ r.id = defaultServers[i].id
                  /\ r.endpoint = defaultServers[i].endpoint
                  /\ r.public_key = GenerateKeyPair(n).public
                  /\ r.port = 51820

\* C39: a step of a RemoveUserKey call for (user, server) leaves every
\* row of another pair as it was, and leaves the device entry of every
\* key other than the one the call read from the pair's row as it was.
C39_DeauthorizeFrame ==
    [][\A p \in Workers :
          (Stepped(p) /\ proc[p].op = "RemoveUserKey") =>
              /\ {r \in registry' :
                     ~(r.user_id = proc[p].user /\ r.server_id = proc[p].server)}
                   = {r \in registry :
                     ~(r.user_id = proc[p].user /\ r.server_id = proc[p].server)}
              /\ \A k \in DOMAIN device :
                    k # proc[p].key => device'[k] = device[k]]_vars

\* A RemoveUserKey has returned success after removing its peer, while
\* another pair holds an active row whose key is live on the device.
C39_Witness ==
    /\ returned.op = "RemoveUserKey"
    /\ returned.result = OK
    /\ Has(returned.calls, "removeUserFromWireGuard", TRUE)
    /\ \E r \in registry : r.is_active /\ device[r.public_key].present
    /\ \E r \in registry : ~r.is_active /\ ~device[r.public_key].present

====
